---------------------------- MODULE Spec2Model ----------------------------
(***************************************************************************)
(* Model of the NOC dashboard's two mechanisms:                            *)
(*   - the router telemetry hook useRouterMonitoring of                    *)
(*     src/app/(protected)/page.tsx (frame decoding, full/delta            *)
(*     reconciliation of the metric table, the capped history, the         *)
(*     reconnect life cycle);                                              *)
(*   - the signed session token of src/lib/auth.ts.                        *)
(*                                                                         *)
(* Conventions.  A JavaScript string is a sequence of one-character        *)
(* strings.  A JavaScript number is a fixed-point integer counting tenths  *)
(* (12.4 is 124, 50 is 500); timestamps and token fields are plain         *)
(* integers.  A JavaScript value of unknown type is a tagged record        *)
(* (JNum, JStr, JNull, JUndef, JArr, JObj).                                *)
(***************************************************************************)
EXTENDS Integers, Sequences, FiniteSets, TLC

VARIABLES
    \* ---- useRouterMonitoring: React state (page.tsx 176-179)
    connectionState,   \* "connecting" | "open" | "closed"
    lastError,         \* "none" or an error tag
    routerMetrics,     \* function: router id -> RouterMetric
    history,           \* function: router id -> sequence of RouterHistoryPoint
    \* ---- useRouterMonitoring: effect closure (page.tsx 186-188)
    socket,            \* readyState of the socket held by `socket`, or "none"
    reconnectTimer,    \* "null" | "pending" (armed) | "stale" (fired or cleared handle)
    shouldReconnect,   \* BOOLEAN
    armed,             \* number of timeouts armed with connect that have neither fired nor been cleared
    \* ---- environment of the hook
    now,               \* Date.now()
    lastFrame,         \* the frame whose handler ran last ("none" before any)
    prevMetrics,       \* routerMetrics before that handler ran
    prevHistory,       \* history before that handler ran
    received,          \* number of frames whose handler has started
    inflight,          \* the handlers waiting for a Blob's text, oldest first
    applied,           \* arrival numbers of the frames whose handler ran to its end, in that order
    tornDown,          \* the effect's cleanup has run
    connects,          \* number of connect() invocations so far
    lastConnect,       \* how the latest connect() went: "none" before the first
    connectsAtTeardown,\* value of connects when the cleanup first ran
    afterTeardown,     \* the kinds of event that fired after the cleanup first ran
    \* ---- session token (auth.ts)
    clock,             \* Date.now() on the server
    token,             \* the token string presented to verifyAuthToken
    issued,            \* the arguments and time of the signAuthToken call behind token
    tampered,          \* "none" | "header" | "body" | "signature" | "malformed"
    verified,          \* outcome of the last verifyAuthToken call
    \* ---- session over HTTP (api/login, api/logout, the protected layout)
    cookie,            \* the browser's auth-token cookie: its value and when it expires
    response,          \* the last HTTP response and what it answered
    copy,              \* a token value copied out of the browser, with its expiry
    loggedOut,         \* the browser has logged out since its last successful login
    \* ---- the users table (db.ts)
    users,             \* the rows of users in id order: the row with id i is users[i]
    dbResult           \* the last call on the users table and how it ended

hookVars == <<connectionState, socket, reconnectTimer, shouldReconnect, armed,
              tornDown, connects, lastConnect, connectsAtTeardown, afterTeardown>>
monVars  == <<lastError, routerMetrics, history, now, lastFrame, prevMetrics, prevHistory,
              received, inflight, applied>>
sessionVars == <<cookie, response, copy, loggedOut>>
authVars == <<clock, token, issued, tampered, verified, sessionVars>>
dbVars   == <<users, dbResult>>
vars     == <<hookVars, monVars, authVars, dbVars>>

-----------------------------------------------------------------------------
(* JavaScript values *)

\* points kept per router: points.slice(-60)
HistoryLimit == 60

JUndef   == [t |-> "undefined"]
JNull    == [t |-> "null"]
JNum(n)  == [t |-> "number", n |-> n]
JStr(s)  == [t |-> "string", s |-> s]
JArr(a)  == [t |-> "array",  a |-> a]
\* an object is its entries in insertion order, each [k |-> key, v |-> value]
JObj(e)  == [t |-> "object", e |-> e]
KV(k, v) == [k |-> k, v |-> v]

IsNullish(v) == v.t \in {"undefined", "null"}

\* record.key (undefined on arrays, whose only own keys are indices, and on rec = null
\* where the source writes rec?.key)
Get(rec, key) ==
    IF rec.t # "object" THEN JUndef
    ELSE LET hits == {i \in 1..Len(rec.e) : rec.e[i].k = key}
         IN  IF hits = {} THEN JUndef ELSE rec.e[CHOOSE i \in hits : TRUE].v

\* Array.isArray
IsArray(v) == v.t = "array"

\* Boolean(value)
Truthy(v) ==
    CASE v.t \in {"undefined", "null"} -> FALSE
      [] v.t = "number" -> v.n # 0
      [] v.t = "string" -> v.s # <<>>
      [] OTHER -> TRUE

\* typeof value === "object" (arrays and null included)
TypeofObject(v) == v.t \in {"object", "array", "null"}

\* a ?? b
Coalesce(a, b) == IF IsNullish(a) THEN b ELSE a

\* vals[1] ?? vals[2] ?? ... ?? JNull
RECURSIVE Chain(_)
Chain(vals) ==
    IF vals = <<>> THEN JNull
    ELSE IF IsNullish(Head(vals)) THEN Chain(Tail(vals)) ELSE Head(vals)

-----------------------------------------------------------------------------
(* Strings *)

Digits == <<"0", "1", "2", "3", "4", "5", "6", "7", "8", "9">>
IsDigit(c) == \E i \in 1..10 : Digits[i] = c
DigitValue(c) == (CHOOSE i \in 1..10 : Digits[i] = c) - 1
IsSpace(c) == c \in {" ", "\t", "\n", "\r"}

RECURSIVE TrimStart(_)
TrimStart(s) == IF s # <<>> /\ IsSpace(Head(s)) THEN TrimStart(Tail(s)) ELSE s

RECURSIVE TrimEnd(_)
TrimEnd(s) ==
    IF s # <<>> /\ IsSpace(s[Len(s)]) THEN TrimEnd(SubSeq(s, 1, Len(s) - 1)) ELSE s

\* String.prototype.trim
Trim(s) == TrimEnd(TrimStart(s))

RECURSIVE NatText(_)
NatText(n) == IF n < 10 THEN <<Digits[n + 1]>> ELSE NatText(n \div 10) \o <<Digits[(n % 10) + 1]>>

\* String(value) of a number held in tenths
NumText(n) ==
    LET a == IF n < 0 THEN -n ELSE n
        body == NatText(a \div 10) \o (IF a % 10 = 0 THEN <<>> ELSE <<".", Digits[(a % 10) + 1]>>)
    IN  IF n < 0 THEN <<"-">> \o body ELSE body

\* value.replace(/,/g, "")
StripCommas(s) == SelectSeq(s, LAMBDA c : c # ",")

\* length of the run of digits of s that starts at position i
RECURSIVE DigitRun(_, _)
DigitRun(s, i) == IF i <= Len(s) /\ IsDigit(s[i]) THEN 1 + DigitRun(s, i + 1) ELSE 0

\* the decimal value of the digits s[i .. i+k-1]
RECURSIVE DigitsValue(_, _, _)
DigitsValue(s, i, k) ==
    IF k = 0 THEN 0 ELSE DigitsValue(s, i, k - 1) * 10 + DigitValue(s[i + k - 1])

\* sanitized.match(/-?\d+(\.\d+)?/): the first position where the pattern matches, or 0
MatchStart(s) ==
    LET starts == {i \in 1..Len(s) :
                     \/ IsDigit(s[i])
                     \/ s[i] = "-" /\ i < Len(s) /\ IsDigit(s[i + 1])}
    IN  IF starts = {} THEN 0 ELSE CHOOSE i \in starts : \A j \in starts : i <= j

\* Number(match[0]) in tenths: sign, integer digits, first fraction digit
MatchedNumber(s, i) ==
    LET neg  == s[i] = "-"
        d    == IF neg THEN i + 1 ELSE i
        k    == DigitRun(s, d)
        e    == d + k
        frac == IF e < Len(s) /\ s[e] = "." /\ IsDigit(s[e + 1])
                THEN DigitValue(s[e + 1]) ELSE 0
        abs  == DigitsValue(s, d, k) * 10 + frac
    IN  IF neg THEN -abs ELSE abs

-----------------------------------------------------------------------------
(* Field pickers *)

\* pickString: JStr of the trimmed text, or JNull
pickString(v) ==
    IF v.t = "string" /\ Trim(v.s) # <<>> THEN JStr(Trim(v.s)) ELSE JNull

\* pickIdentifier: JStr of String(value).trim(), or JNull
pickIdentifier(v) ==
    CASE v.t = "string" -> IF Trim(v.s) # <<>> THEN JStr(Trim(v.s)) ELSE JNull
      [] v.t = "number" -> JStr(NumText(v.n))
      [] OTHER -> JNull

\* pickNumber: JNum or JNull
pickNumber(v) ==
    CASE v.t = "number" -> v
      [] v.t = "string" ->
            LET s == StripCommas(v.s)
                i == MatchStart(s)
            IN  IF i = 0 THEN JNull ELSE JNum(MatchedNumber(s, i))
      [] OTHER -> JNull

\* pickMetricValue: JNum, JStr (trimmed, verbatim) or JNull
pickMetricValue(v) ==
    LET numeric == pickNumber(v)
    IN  IF numeric # JNull THEN numeric
        ELSE IF v.t = "string" /\ Trim(v.s) # <<>> THEN JStr(Trim(v.s))
        ELSE JNull

\* asRecord
asRecord(v) == IF v.t = "object" THEN v ELSE JNull

\* pickString(a) ?? pickString(b) ?? ... over the values of keys, else JNull
RECURSIVE FirstString(_, _)
FirstString(rec, keys) ==
    IF keys = <<>> THEN JNull
    ELSE LET r == pickString(Get(rec, Head(keys)))
         IN  IF r # JNull THEN r ELSE FirstString(rec, Tail(keys))

\* pickIdentifier(a) ?? pickIdentifier(b) ?? ...
RECURSIVE FirstIdentifier(_, _)
FirstIdentifier(rec, keys) ==
    IF keys = <<>> THEN JNull
    ELSE LET r == pickIdentifier(Get(rec, Head(keys)))
         IN  IF r # JNull THEN r ELSE FirstIdentifier(rec, Tail(keys))

\* pickNumber(a) ?? pickNumber(b) ?? ...
RECURSIVE FirstNumber(_, _)
FirstNumber(rec, keys) ==
    IF keys = <<>> THEN JNull
    ELSE LET r == pickNumber(Get(rec, Head(keys)))
         IN  IF r # JNull THEN r ELSE FirstNumber(rec, Tail(keys))

\* pickMetricValue(a) ?? pickMetricValue(b) ?? ...
RECURSIVE FirstMetricValue(_, _)
FirstMetricValue(rec, keys) ==
    IF keys = <<>> THEN JNull
    ELSE LET r == pickMetricValue(Get(rec, Head(keys)))
         IN  IF r # JNull THEN r ELSE FirstMetricValue(rec, Tail(keys))

-----------------------------------------------------------------------------
(* Text constants of the source *)

TxtRouter    == <<"R", "o", "u", "t", "e", "r", " ">>
TxtRouterId  == <<"r", "o", "u", "t", "e", "r", "-">>
TxtInterface == <<"I", "n", "t", "e", "r", "f", "a", "c", "e", " ">>
TxtDelta     == <<"d", "e", "l", "t", "a">>
TxtFull      == <<"f", "u", "l", "l">>

Uppers == <<"A", "B", "C", "D", "E", "F", "G", "H", "I", "J", "K", "L", "M",
            "N", "O", "P", "Q", "R", "S", "T", "U", "V", "W", "X", "Y", "Z">>
Lowers == <<"a", "b", "c", "d", "e", "f", "g", "h", "i", "j", "k", "l", "m",
            "n", "o", "p", "q", "r", "s", "t", "u", "v", "w", "x", "y", "z">>

\* String.prototype.toLowerCase
ToLowerCase(s) ==
    [i \in 1..Len(s) |->
        IF \E j \in 1..26 : Uppers[j] = s[i]
        THEN Lowers[CHOOSE j \in 1..26 : Uppers[j] = s[i]]
        ELSE s[i]]

\* the characters of an object key that is used as an interface name
KeyText(k) ==
    CASE k = "ether1" -> <<"e", "t", "h", "e", "r", "1">>
      [] k = "ether2" -> <<"e", "t", "h", "e", "r", "2">>
      [] OTHER        -> <<"k", "e", "y">>

-----------------------------------------------------------------------------
(* Item normalization *)

\* normalizeInterfaceEntry; fallbackName is JUndef when the argument is omitted
normalizeInterfaceEntry(value, index, fallbackName) ==
    LET default == JStr(TxtInterface \o NatText(index + 1))
    IN  IF ~Truthy(value) \/ ~TypeofObject(value)
        THEN [name   |-> Coalesce(fallbackName, default).s,
              rx     |-> CASE value.t = "number" -> value
                           [] value.t = "string" -> JStr(Trim(value.s))
                           [] OTHER -> JNull,
              tx     |-> JNull,
              status |-> JNull,
              rxUnit |-> JNull,
              txUnit |-> JNull]
        ELSE [name   |-> Chain(<<FirstString(value, <<"name", "interface", "iface", "id">>),
                                 fallbackName, default>>).s,
              rx     |-> FirstMetricValue(value,
                            <<"rx", "rx_bps", "rxRate", "rx_rate", "rx_mbps", "rxBytes",
                              "rx_bytes", "download", "in", "receive", "rxTraffic">>),
              tx     |-> FirstMetricValue(value,
                            <<"tx", "tx_bps", "txRate", "tx_rate", "tx_mbps", "txBytes",
                              "tx_bytes", "upload", "out", "transmit", "txTraffic">>),
              status |-> FirstString(value, <<"status", "state", "linkStatus", "interfaceStatus">>),
              rxUnit |-> FirstString(value, <<"rx_unit", "rxUnit", "rxUnits">>),
              txUnit |-> FirstString(value, <<"tx_unit", "txUnit", "txUnits">>)]

\* the entries normalizeInterfaces visits, each with the fallback name it passes on:
\* value.forEach((entry, index) => ...) or Object.entries(value).forEach(([key, entry], index) => ...)
InterfaceEntries(value) ==
    IF IsArray(value) THEN [i \in 1..Len(value.a) |-> [v |-> value.a[i], fallback |-> JUndef]]
    ELSE IF value.t = "object"
         THEN [i \in 1..Len(value.e) |-> [v |-> value.e[i].v, fallback |-> JStr(KeyText(value.e[i].k))]]
    ELSE <<>>

NormalizeEntries(entries) ==
    [i \in 1..Len(entries) |-> normalizeInterfaceEntry(entries[i].v, i - 1, entries[i].fallback)]

\* normalizeInterfaces: JNull, or JArr of the normalized entries
normalizeInterfaces(value) ==
    IF ~Truthy(value) THEN JNull ELSE JArr(NormalizeEntries(InterfaceEntries(value)))

\* normalizeInterfaces(a) ?? normalizeInterfaces(b) ?? ... over the values of keys, else JNull
RECURSIVE FirstInterfaces(_, _)
FirstInterfaces(rec, keys) ==
    IF keys = <<>> THEN JNull
    ELSE IF Truthy(Get(rec, Head(keys))) THEN normalizeInterfaces(Get(rec, Head(keys)))
    ELSE FirstInterfaces(rec, Tail(keys))

\* normalizeRouterItem; t is Date.now(); JNull when the item is discarded
normalizeRouterItem(value, index, t) ==
    IF ~Truthy(value) \/ ~TypeofObject(value) THEN JNull
    ELSE
    LET name == Chain(<<FirstString(value, <<"name", "routerName", "router", "identity">>),
                        JStr(TxtRouter \o NatText(index + 1))>>)
        identifier == Chain(<<FirstIdentifier(value, <<"id", "routerId", "uuid">>),
                              name,
                              JStr(TxtRouterId \o NatText(index))>>)
        resourceGroup == asRecord(Get(value, "resource"))
        pppoeGroup == asRecord(Get(value, "pppoe"))
        total == Chain(<<FirstNumber(value, <<"total", "pppoe_total", "pppoeTotal", "pppoe_count">>),
                         pickNumber(Get(pppoeGroup, "total"))>>)
        active == Chain(<<FirstNumber(value, <<"active", "pppoe_active", "pppoeActive">>),
                          pickNumber(Get(pppoeGroup, "active"))>>)
        cpu == Chain(<<FirstNumber(value, <<"cpu", "cpu_usage">>),
                       pickNumber(Get(resourceGroup, "cpu")),
                       FirstNumber(value, <<"cpuLoad", "cpu_load">>)>>)
        memory == Chain(<<FirstNumber(value, <<"memory", "memory_usage">>),
                          pickNumber(Get(resourceGroup, "memory")),
                          FirstNumber(value, <<"memoryLoad", "memory_load">>)>>)
        interfaces == Chain(<<FirstInterfaces(value, <<"interfaces", "interface", "ifaces",
                                                       "traffic", "stats">>),
                              JArr(<<>>)>>)
    IN  IF ~Truthy(name) \/ ~Truthy(identifier) THEN JNull
        ELSE [id            |-> identifier.s,
              name          |-> name.s,
              status        |-> FirstString(value, <<"status", "state", "health", "connectionStatus">>),
              total         |-> total,
              active        |-> active,
              cpu           |-> cpu,
              memory        |-> memory,
              interfaces    |-> interfaces.a,
              lastUpdatedAt |-> t]

\* Object.values(record).filter(item => Boolean(item) && typeof item === "object" && !Array.isArray(item))
NestedValues(record) ==
    LET vals == [i \in 1..Len(record.e) |-> record.e[i].v]
    IN  SelectSeq(vals, LAMBDA item : item.t = "object")

\* extractRouterItems: the sequence of raw items
extractRouterItems(payload) ==
    IF ~Truthy(payload) THEN <<>>
    ELSE IF IsArray(payload) THEN payload.a
    ELSE IF payload.t = "object" THEN
        IF IsArray(Get(payload, "routers")) THEN Get(payload, "routers").a
        ELSE IF IsArray(Get(payload, "data")) THEN Get(payload, "data").a
        ELSE IF IsArray(Get(payload, "items")) THEN Get(payload, "items").a
        ELSE IF IsArray(Get(payload, "result")) THEN Get(payload, "result").a
        ELSE IF Truthy(Get(payload, "router")) THEN <<Get(payload, "router")>>
        ELSE IF Truthy(Get(payload, "device")) THEN <<Get(payload, "device")>>
        ELSE IF Len(NestedValues(payload)) > 0 /\ Len(NestedValues(payload)) = Len(payload.e)
             THEN NestedValues(payload)
        ELSE <<payload>>
    ELSE <<>>

\* items.forEach((item, index) => ...) of normalizeRouterPayload, from position i on
\* if (normalized) { result.push(normalized) }
Pushed(normalized) == IF normalized # JNull THEN <<normalized>> ELSE <<>>

RECURSIVE NormalizeFrom(_, _, _)
NormalizeFrom(items, i, t) ==
    IF i > Len(items) THEN <<>>
    ELSE Pushed(normalizeRouterItem(items[i], i - 1, t)) \o NormalizeFrom(items, i + 1, t)

\* normalizeRouterPayload followed by .map(metric => ({...metric, lastUpdatedAt: timestamp}));
\* payload is the array (a sequence) the interpreter returned
normalizeRouterPayload(payload, t) == NormalizeFrom(extractRouterItems(JArr(payload)), 1, t)

-----------------------------------------------------------------------------
(* Shape interpretation *)

NoPayload == [kind |-> "none", routers |-> <<>>, added |-> <<>>, updated |-> <<>>, removed |-> <<>>]
FullPayload(routers) == [NoPayload EXCEPT !.kind = "full", !.routers = routers]
DeltaPayload(added, updated, removed) ==
    [NoPayload EXCEPT !.kind = "delta", !.added = added, !.updated = updated, !.removed = removed]

\* Array.isArray(routersRecord?.field) ? routersRecord?.field : []
ArrayField(rec, key) == IF IsArray(Get(rec, key)) THEN Get(rec, key).a ELSE <<>>

\* the loop over candidates: the first that is a non-empty array or carries a routers array
RECURSIVE FirstCandidate(_)
FirstCandidate(candidates) ==
    IF candidates = <<>> THEN NoPayload
    ELSE LET candidate == Head(candidates)
         IN  IF ~Truthy(candidate) THEN FirstCandidate(Tail(candidates))
             ELSE IF IsArray(candidate)
                  THEN IF Len(candidate.a) > 0 THEN FullPayload(candidate.a)
                       ELSE FirstCandidate(Tail(candidates))
             ELSE IF candidate.t = "object" /\ IsArray(Get(candidate, "routers"))
                  THEN FullPayload(Get(candidate, "routers").a)
             ELSE FirstCandidate(Tail(candidates))

\* interpretMonitoringPayload; kind "none" is the source's null
interpretMonitoringPayload(payload) ==
    IF IsNullish(payload) THEN NoPayload
    ELSE IF IsArray(payload) THEN FullPayload(payload.a)
    ELSE IF payload.t # "object" THEN NoPayload
    ELSE
    LET type == Get(payload, "type")
        announcedType == IF type.t = "string" THEN JStr(ToLowerCase(type.s)) ELSE JNull
        data == Get(payload, "data")
        routersRecord == asRecord(Get(payload, "routers"))
        candidates == (IF announcedType = JStr(TxtFull) THEN <<data>> ELSE <<>>)
                      \o <<payload>>
                      \o (IF Truthy(data) /\ data.t = "object" THEN <<data>> ELSE <<>>)
        found == FirstCandidate(candidates)
        extracted == extractRouterItems(payload)
    IN  IF announcedType = JStr(TxtDelta)
        THEN DeltaPayload(ArrayField(routersRecord, "added"),
                          ArrayField(routersRecord, "updated"),
                          ArrayField(routersRecord, "removed"))
        ELSE IF found.kind = "full" THEN found
        ELSE IF Len(extracted) > 0 THEN FullPayload(extracted)
        ELSE NoPayload

\* the identifiers one entry of `removed` names: a sequence of at most one string
EntryIdentifier(entry) ==
    CASE entry.t = "string" -> IF Trim(entry.s) # <<>> THEN <<Trim(entry.s)>> ELSE <<>>
      [] entry.t = "number" -> <<NumText(entry.n)>>
      [] entry.t = "object" ->
            LET identifier == Chain(<<FirstIdentifier(entry, <<"id", "routerId", "uuid">>),
                                      FirstString(entry, <<"router", "name">>)>>)
            IN  IF Truthy(identifier) THEN <<identifier.s>> ELSE <<>>
      [] OTHER -> <<>>

\* extractRouterIdentifiers: Array.from of the Set, in insertion order
RECURSIVE extractRouterIdentifiers(_)
extractRouterIdentifiers(entries) ==
    IF entries = <<>> THEN <<>>
    ELSE LET init == extractRouterIdentifiers(SubSeq(entries, 1, Len(entries) - 1))
             last == EntryIdentifier(entries[Len(entries)])
         IN  IF last # <<>> /\ \A i \in 1..Len(init) : init[i] # last[1]
             THEN init \o last ELSE init

-----------------------------------------------------------------------------
(* Frame decoding.  A text is its sequence of lines; a line is its characters and, *)
(* when the trimmed line is a JSON document, the value JSON.parse gives for it.   *)
(* Every JSON document of a text sits on one line, so the whole text parses as    *)
(* JSON exactly when it has one non-blank line and that line parses.              *)

JsonLine(value) == [ok |-> TRUE, value |-> value, raw |-> <<"{", "}">>]
RawLine(chars)  == [ok |-> FALSE, value |-> JUndef, raw |-> chars]

\* tryParseJson of one trimmed line
tryParseJson(line) == [success |-> line.ok, value |-> IF line.ok THEN line.value ELSE JNull]

\* the text with the lines joined again and trimmed
RECURSIVE JoinLines(_)
JoinLines(lines) ==
    IF lines = <<>> THEN <<>>
    ELSE IF Len(lines) = 1 THEN lines[1].raw
    ELSE lines[1].raw \o <<"\n">> \o JoinLines(Tail(lines))

\* value.split(/\r?\n/).map(s => s.trim()).filter(Boolean)
Segments(text) == SelectSeq(text, LAMBDA line : Trim(line.raw) # <<>>)

\* normalizeTextPayload
normalizeTextPayload(text) ==
    LET trimmed == Trim(JoinLines(text))
        segments == Segments(text)
        parsedSegments ==
            SelectSeq([i \in 1..Len(segments) |->
                          IF tryParseJson(segments[i]).success
                          THEN tryParseJson(segments[i]).value
                          ELSE JStr(Trim(segments[i].raw))],
                      LAMBDA segment : segment # JNull /\ segment # JStr(<<>>))
    IN  IF trimmed = <<>> THEN JNull
        ELSE IF Len(segments) = 1 /\ tryParseJson(segments[1]).success
             THEN tryParseJson(segments[1]).value
        ELSE IF Len(segments) > 1 /\ Len(parsedSegments) = 1 THEN parsedSegments[1]
        ELSE IF Len(segments) > 1 /\ Len(parsedSegments) > 1 THEN JArr(parsedSegments)
        ELSE JStr(trimmed)

\* parseWebSocketMessage: a string, a Blob and an ArrayBuffer all decode to their text
parseWebSocketMessage(data) ==
    IF data.type \in {"string", "blob", "arraybuffer"} THEN normalizeTextPayload(data.text)
    ELSE JUndef

-----------------------------------------------------------------------------
(* History points *)

\* metricToNumber
metricToNumber(value) ==
    CASE value.t = "number" -> value
      [] value.t = "string" -> pickNumber(value)
      [] OTHER -> JNull

\* (mutant) the transmit value left out of the maximum
LocalPeakReceiveOnly(iface) == metricToNumber(iface.rx)

\* Math.max(...values) of the non-null ones among rx and tx, or JNull when there is none
LocalPeak(iface) ==
    LET rx == metricToNumber(iface.rx)
        tx == metricToNumber(iface.tx)
    IN  IF rx = JNull THEN tx
        ELSE IF tx = JNull THEN rx
        ELSE IF rx.n >= tx.n THEN rx ELSE tx

\* calculatePeakTrafficFromInterfaces: the forEach from position i on, peak so far
RECURSIVE PeakFrom(_, _, _)
PeakFrom(interfaces, i, peak) ==
    IF i > Len(interfaces) THEN peak
    ELSE LET localPeak == LocalPeak(interfaces[i])
         IN  PeakFrom(interfaces, i + 1,
                      IF localPeak # JNull /\ (peak = JNull \/ localPeak.n > peak.n)
                      THEN localPeak ELSE peak)

calculatePeakTrafficFromInterfaces(interfaces) == PeakFrom(interfaces, 1, JNull)

\* (mutant) points.slice(0, n): the oldest points kept
SliceFirst(points, n) == IF Len(points) <= n THEN points ELSE SubSeq(points, 1, n)

\* points.slice(-n)
SliceLast(points, n) ==
    IF Len(points) <= n THEN points ELSE SubSeq(points, Len(points) - n + 1, Len(points))

\* pushPoint (delta branch) and the body of normalized.forEach (full branch):
\* the history with the point of metric appended to its router's sequence
pushPoint(next, metric, timestamp) ==
    LET points == IF metric.id \in DOMAIN next THEN next[metric.id] ELSE <<>>
        point  == [timestamp  |-> timestamp,
                   cpu        |-> metric.cpu,
                   memory     |-> metric.memory,
                   active     |-> metric.active,
                   peakTraffic |-> calculatePeakTrafficFromInterfaces(metric.interfaces)]
    IN  (metric.id :> SliceLast(Append(points, point), HistoryLimit)) @@ next

-----------------------------------------------------------------------------
(* Reconciliation: the state updaters of socket.onmessage *)

\* the empty Record<string, ...>
EmptyTable == <<>>

\* f without the keys outside S
Restrict(f, S) == IF S = {} THEN EmptyTable ELSE [k \in S |-> f[k]]

Range(seq) == {seq[i] : i \in 1..Len(seq)}

\* {...base, ...over}
Spread(base, over) == over @@ base

\* metrics.forEach(metric => { next[metric.id] = metric })
RECURSIVE SetAll(_, _)
SetAll(next, metrics) ==
    IF metrics = <<>> THEN next
    ELSE SetAll((Head(metrics).id :> Head(metrics)) @@ next, Tail(metrics))

\* normalizedUpdated.forEach: next[id] = {...(previousMetric ?? metric), ...metric, lastUpdatedAt}
RECURSIVE MergeAll(_, _, _)
MergeAll(next, metrics, timestamp) ==
    IF metrics = <<>> THEN next
    ELSE LET metric == Head(metrics)
             previousMetric == IF metric.id \in DOMAIN next THEN next[metric.id] ELSE metric
             merged == Spread(Spread(previousMetric, metric), [lastUpdatedAt |-> timestamp])
         IN  MergeAll((metric.id :> merged) @@ next, Tail(metrics), timestamp)

\* ids.forEach(id => { delete next[id] })
DeleteAll(next, ids) == Restrict(next, DOMAIN next \ Range(ids))

\* metrics.forEach(pushPoint)
RECURSIVE PushAll(_, _, _)
PushAll(next, metrics, timestamp) ==
    IF metrics = <<>> THEN next
    ELSE PushAll(pushPoint(next, Head(metrics), timestamp), Tail(metrics), timestamp)

\* (mutant) the full branch merging the snapshot into the previous table
FullMetricsKeepsPrevious(prev, normalized) == SetAll(prev, normalized)

\* setRouterMetrics of the full branch
FullMetrics(prev, normalized) == SetAll(EmptyTable, normalized)

\* (mutant) the full branch keeping the history of routers the snapshot does not hold
FullHistoryKeepsAbsent(prev, normalized, timestamp) == PushAll(prev, normalized, timestamp)

\* setHistory of the full branch
FullHistory(prev, normalized, timestamp) ==
    LET next == PushAll(prev, normalized, timestamp)
        validIds == {normalized[i].id : i \in 1..Len(normalized)}
    IN  Restrict(next, DOMAIN next \cap validIds)

\* (mutant) updated items applied only to routers the table already holds
DeltaMetricsUpdatesKnownOnly(prev, normalizedAdded, normalizedUpdated, removalIds, timestamp) ==
    DeleteAll(MergeAll(SetAll(prev, normalizedAdded),
                       SelectSeq(normalizedUpdated,
                                 LAMBDA metric : metric.id \in DOMAIN SetAll(prev, normalizedAdded)),
                       timestamp),
              removalIds)

\* setRouterMetrics of the delta branch
DeltaMetrics(prev, normalizedAdded, normalizedUpdated, removalIds, timestamp) ==
    DeleteAll(MergeAll(SetAll(prev, normalizedAdded), normalizedUpdated, timestamp), removalIds)

\* (mutant) the delta branch leaving the history of removed routers in place
DeltaHistoryKeepsRemoved(prev, normalizedAdded, normalizedUpdated, removalIds, timestamp) ==
    PushAll(PushAll(prev, normalizedAdded, timestamp), normalizedUpdated, timestamp)

\* (mutant) the delta branch deleting the removed routers' histories before it pushes
DeltaHistoryRemovesFirst(prev, normalizedAdded, normalizedUpdated, removalIds, timestamp) ==
    PushAll(PushAll(DeleteAll(prev, removalIds), normalizedAdded, timestamp),
            normalizedUpdated, timestamp)

\* setHistory of the delta branch
DeltaHistory(prev, normalizedAdded, normalizedUpdated, removalIds, timestamp) ==
    DeleteAll(PushAll(PushAll(prev, normalizedAdded, timestamp), normalizedUpdated, timestamp),
              removalIds)

\* what a handler that returns early leaves
Unchanged(metrics, hist) == [routerMetrics |-> metrics, history |-> hist, done |-> FALSE]

\* the full branch, normalized being the snapshot's metrics
FullBranch(normalized, timestamp, metrics, hist) ==
    IF Len(normalized) = 0 THEN Unchanged(metrics, hist)
    ELSE [routerMetrics |-> FullMetrics(metrics, normalized),
          history       |-> FullHistory(hist, normalized, timestamp),
          done          |-> TRUE]

\* the delta branch
DeltaBranch(normalizedAdded, normalizedUpdated, removalIds, timestamp, metrics, hist) ==
    IF Len(normalizedAdded) = 0 /\ Len(normalizedUpdated) = 0 /\ Len(removalIds) = 0
    THEN Unchanged(metrics, hist)
    ELSE [routerMetrics |-> DeltaMetrics(metrics, normalizedAdded, normalizedUpdated,
                                         removalIds, timestamp),
          history       |-> DeltaHistory(hist, normalizedAdded, normalizedUpdated,
                                         removalIds, timestamp),
          done          |-> TRUE]

\* normalizeRouterPayload(list).map(...) for each list of an interpreted payload, in the
\* order routers, added, updated
NormalizedLists(interpreted, timestamp) ==
    [i \in 1..3 |->
        normalizeRouterPayload(CASE i = 1 -> interpreted.routers
                                 [] i = 2 -> interpreted.added
                                 [] i = 3 -> interpreted.updated,
                               timestamp)]

\* the handler from `if (interpreted.kind === "full")` on
Reconcile(interpreted, lists, removalIds, timestamp, metrics, hist) ==
    IF interpreted.kind = "none" THEN Unchanged(metrics, hist)
    ELSE IF interpreted.kind = "full" THEN FullBranch(lists[1], timestamp, metrics, hist)
    ELSE DeltaBranch(lists[2], lists[3], removalIds, timestamp, metrics, hist)

\* the handler from interpretMonitoringPayload(payload) on
HandleInterpreted(interpreted, timestamp, metrics, hist) ==
    Reconcile(interpreted, NormalizedLists(interpreted, timestamp),
              extractRouterIdentifiers(interpreted.removed), timestamp, metrics, hist)

\* the handler from `if (payload === null || payload === undefined)` on
HandlePayload(payload, timestamp, metrics, hist) ==
    IF IsNullish(payload) THEN Unchanged(metrics, hist)
    ELSE HandleInterpreted(interpretMonitoringPayload(payload), timestamp, metrics, hist)

\* The async body of socket.onmessage for frame data at Date.now() = timestamp:
\* the metric table and history it leaves, and whether it reaches setLastError(null)
\* (done) or returns early
HandleMessage(data, timestamp, metrics, hist) ==
    HandlePayload(parseWebSocketMessage(data), timestamp, metrics, hist)

-----------------------------------------------------------------------------
(* Frames the upstream monitor sends *)

\* frames one run handles (model bound)
MaxFrames == 2

\* frames one run of interface snapshots handles (model bound)
MaxPeakFrames == 1

\* frames the history-cap run handles, one per millisecond (model bound)
MaxPushes == 70

IdA == <<"A">>
IdB == <<"B">>
IdC == <<"C">>

TxtMbps  == <<"1", "2", ".", "4", " ", "M", "b", "p", "s">>
TxtNA    == <<"n", "/", "a">>
TxtKbps  == <<"1", ",", "2", "3", "4", " ", "k", "b", "p", "s">>
TxtPct   == <<"6", "5", "%">>
TxtAlpha == <<"A", "l", "p", "h", "a">>
TxtUp    == <<"u", "p">>

NoFrame == [type |-> "none", text |-> <<>>]
TextFrame(value) == [type |-> "string", text |-> <<JsonLine(value)>>]

DeltaMessage(added, updated, removed) ==
    JObj(<<KV("type", JStr(TxtDelta)),
           KV("routers", JObj(<<KV("added", JArr(added)), KV("updated", JArr(updated)),
                                KV("removed", JArr(removed))>>))>>)

\* raw router items
ItemA ==
    JObj(<<KV("id", JStr(IdA)), KV("name", JStr(TxtAlpha)), KV("status", JStr(TxtUp)),
           KV("cpu", JNum(500)), KV("memory", JNum(600)), KV("total", JNum(100)),
           KV("active", JNum(70)),
           KV("interfaces", JArr(<<JObj(<<KV("rx", JStr(TxtMbps)), KV("tx", JNum(30))>>)>>))>>)
ItemACpu   == JObj(<<KV("id", JStr(IdA)), KV("cpu", JNum(700))>>)
ItemAMem   == JObj(<<KV("id", JStr(<<" ", "A">>)), KV("memory_usage", JStr(TxtPct))>>)
ItemB      == JObj(<<KV("id", JStr(IdB)), KV("cpu", JNum(200)), KV("memory", JNum(300))>>)
ItemBName  == JObj(<<KV("id", JStr(IdB)), KV("name", JStr(<<"B", "e", "e">>))>>)
ItemC      == JObj(<<KV("name", JStr(IdC)), KV("resource", JObj(<<KV("cpu", JNum(10))>>))>>)
Item7      == JObj(<<KV("routerId", JNum(70)), KV("cpu", JNum(50))>>)

FullFrames ==
    { TextFrame(JArr(<<ItemA, ItemB>>)),
      TextFrame(JArr(<<ItemB, ItemC>>)),
      TextFrame(JArr(<<ItemA>>)),
      TextFrame(JArr(<<ItemA, ItemACpu>>)),
      TextFrame(JArr(<<Item7, ItemC>>)),
      TextFrame(JObj(<<KV("type", JStr(<<"F", "U", "L", "L">>)), KV("data", JArr(<<ItemA, ItemB>>))>>)),
      TextFrame(JObj(<<KV("routers", JArr(<<ItemB, ItemC>>))>>)),
      TextFrame(JObj(<<KV("router", ItemC)>>)),
      TextFrame(JArr(<<>>)),
      TextFrame(JArr(<<JNum(10), JNull>>)) }

DeltaFrames ==
    { TextFrame(DeltaMessage(<<>>, <<ItemACpu>>, <<>>)),
      TextFrame(DeltaMessage(<<>>, <<ItemAMem>>, <<>>)),
      TextFrame(DeltaMessage(<<>>, <<ItemBName>>, <<>>)),
      TextFrame(DeltaMessage(<<ItemB>>, <<>>, <<>>)),
      TextFrame(DeltaMessage(<<ItemA>>, <<ItemACpu>>, <<>>)),
      TextFrame(DeltaMessage(<<ItemC>>, <<>>, <<JStr(IdA)>>)),
      TextFrame(DeltaMessage(<<>>, <<ItemACpu>>, <<JStr(IdB)>>)),
      TextFrame(DeltaMessage(<<>>, <<ItemACpu>>, <<JStr(IdA)>>)),
      TextFrame(DeltaMessage(<<>>, <<>>, <<JStr(IdA)>>)),
      TextFrame(DeltaMessage(<<>>, <<>>, <<JStr(<<" ", "A", " ">>)>>)),
      TextFrame(DeltaMessage(<<>>, <<>>, <<JNum(70)>>)),
      TextFrame(DeltaMessage(<<>>, <<>>, <<JObj(<<KV("id", JStr(IdB))>>), JStr(IdC)>>)),
      TextFrame(DeltaMessage(<<>>, <<>>, <<>>)),
      TextFrame(JObj(<<KV("type", JStr(TxtDelta))>>)) }

OddFrames ==
    { [type |-> "string", text |-> <<RawLine(<<" ">>)>>],
      [type |-> "string", text |-> <<RawLine(<<"o", "k">>)>>],
      [type |-> "string", text |-> <<JsonLine(JNull)>>],
      [type |-> "string", text |-> <<JsonLine(JArr(<<ItemA>>)), RawLine(<<>>), JsonLine(JArr(<<ItemB>>))>>] }

\* texts of several lines, each line a JSON document
MultiFrames ==
    { [type |-> "string", text |-> <<JsonLine(ItemA), JsonLine(ItemB)>>],
      [type |-> "string",
       text |-> <<JsonLine(JArr(<<ItemA, ItemB>>)),
                  JsonLine(DeltaMessage(<<>>, <<>>, <<JStr(IdA)>>))>>] }

\* a router named by its router and name members only, in a snapshot and in removed lists
ItemD == JObj(<<KV("router", JStr(<<"D">>)), KV("name", JStr(<<"D", "e", "l">>)), KV("cpu", JNum(40))>>)
IdentityFrames ==
    { TextFrame(JArr(<<ItemC, ItemD>>)),
      TextFrame(DeltaMessage(<<>>, <<>>, <<ItemC>>)),
      TextFrame(DeltaMessage(<<>>, <<>>, <<ItemD>>)),
      TextFrame(DeltaMessage(<<>>, <<>>, <<ItemB>>)) }

\* deltas that name a router in removed and in added or updated
ConflictFrames ==
    { TextFrame(DeltaMessage(<<ItemB>>, <<>>, <<JStr(IdB)>>)),
      TextFrame(DeltaMessage(<<ItemC>>, <<ItemBName>>, <<JObj(<<KV("id", JStr(IdB))>>), JStr(IdC)>>)) }

MonFrames ==
    FullFrames \cup DeltaFrames \cup OddFrames \cup MultiFrames \cup IdentityFrames
        \cup ConflictFrames

\* raw receive/transmit values of an interface
TrafficValues == {JNum(30), JNum(-50), JStr(TxtMbps), JStr(TxtKbps), JStr(TxtNA), JNull}

\* a full snapshot of one router with two interfaces
PeakFrame(rx1, tx1, rx2) ==
    TextFrame(JArr(<<JObj(<<KV("id", JStr(IdA)),
                            KV("interfaces",
                               JArr(<<JObj(<<KV("rx", rx1), KV("tx", tx1)>>),
                                      JObj(<<KV("download", rx2)>>)>>))>>)>>))

\* the same with the interfaces given as an object of scalars
PeakObjectFrame(v1, v2) ==
    TextFrame(JArr(<<JObj(<<KV("id", JStr(IdA)),
                            KV("traffic", JObj(<<KV("ether1", v1), KV("ether2", v2)>>))>>)>>))

PeakFrames ==
    {PeakFrame(rx1, tx1, rx2) : rx1 \in TrafficValues, tx1 \in TrafficValues,
                                rx2 \in {JNum(200), JStr(TxtNA), JUndef}}
    \cup {PeakObjectFrame(v1, v2) : v1 \in TrafficValues, v2 \in {JNum(200), JStr(TxtMbps)}}

\* the frames of the history-cap run: every one but the removal appends one point for A
CapFrames ==
    { TextFrame(JArr(<<ItemA>>)),
      TextFrame(DeltaMessage(<<ItemA>>, <<>>, <<>>)),
      TextFrame(DeltaMessage(<<>>, <<ItemA>>, <<>>)),
      TextFrame(DeltaMessage(<<>>, <<>>, <<JStr(IdA)>>)) }

-----------------------------------------------------------------------------
(* The hook: message handling *)

\* (mutant) setLastError(null) reached by the handlers that return early too
CommitClearsError(r) ==
    /\ routerMetrics' = r.routerMetrics
    /\ history' = r.history
    /\ lastError' = "none"

\* the state updates a handler queued take effect
Commit(r) ==
    /\ routerMetrics' = r.routerMetrics
    /\ history' = r.history
    /\ lastError' = IF r.done THEN "none" ELSE lastError

\* socket.onmessage for a frame that decodes synchronously (text, ArrayBuffer): the
\* handler's async body runs to its end before the next event; dt is the time that
\* passed since the previous event
OnMessage(data, dt) ==
    /\ socket = "open"
    /\ Commit(HandleMessage(data, now + dt, routerMetrics, history))
    /\ now' = now + dt
    /\ lastFrame' = data
    /\ prevMetrics' = routerMetrics
    /\ prevHistory' = history
    /\ received' = received + 1
    /\ applied' = Append(applied, received + 1)
    /\ UNCHANGED <<inflight, hookVars, authVars, dbVars>>

\* the frame as a binary frame: with binaryType left at "blob" it arrives as a Blob
AsBlob(frame) == [frame EXCEPT !.type = "blob"]

\* the sequence without its i-th element
RemoveAt(seq, i) == SubSeq(seq, 1, i - 1) \o SubSeq(seq, i + 1, Len(seq))

\* socket.onmessage for a Blob: the handler's async body starts and waits at
\* `await data.text()`; the event loop goes on to the next event
OnBlobMessage(data) ==
    /\ socket = "open"
    /\ received' = received + 1
    /\ inflight' = Append(inflight, [data |-> data, n |-> received + 1])
    /\ UNCHANGED <<lastError, routerMetrics, history, now, lastFrame, prevMetrics, prevHistory,
                   applied, hookVars, authVars, dbVars>>

\* the text of the i-th waiting Blob was read: the rest of its handler runs
BlobResolved(i) ==
    /\ i \in 1..Len(inflight)
    /\ Commit(HandleMessage(inflight[i].data, now + 1, routerMetrics, history))
    /\ now' = now + 1
    /\ lastFrame' = inflight[i].data
    /\ prevMetrics' = routerMetrics
    /\ prevHistory' = history
    /\ applied' = Append(applied, inflight[i].n)
    /\ inflight' = RemoveAt(inflight, i)
    /\ UNCHANGED <<received, hookVars, authVars, dbVars>>

\* (mutant) the handler's catch also closes the socket
BlobRejectedClosesSocket(i) ==
    /\ i \in 1..Len(inflight)
    /\ lastError' = "message"
    /\ inflight' = RemoveAt(inflight, i)
    /\ socket' = IF socket \in {"open", "connecting"} THEN "closing" ELSE socket
    /\ UNCHANGED <<routerMetrics, history, now, lastFrame, prevMetrics, prevHistory, received,
                   applied, connectionState, reconnectTimer, shouldReconnect, armed, tornDown,
                   connects, lastConnect, connectsAtTeardown, afterTeardown, authVars, dbVars>>

\* reading the i-th waiting Blob failed: data.text() rejects and the handler's catch runs
BlobRejected(i) ==
    /\ i \in 1..Len(inflight)
    /\ lastError' = "message"
    /\ inflight' = RemoveAt(inflight, i)
    /\ UNCHANGED <<routerMetrics, history, now, lastFrame, prevMetrics, prevHistory, received,
                   applied, hookVars, authVars, dbVars>>

InitOpen ==
    /\ connectionState = "open"
    /\ socket = "open"
    /\ reconnectTimer = "null"
    /\ shouldReconnect = TRUE
    /\ armed = 0
    /\ tornDown = FALSE
    /\ connects = 1
    /\ lastConnect = "created"
    /\ connectsAtTeardown = 0
    /\ afterTeardown = {}

InitTable ==
    /\ lastError = "none"
    /\ routerMetrics = EmptyTable
    /\ history = EmptyTable
    /\ now = 0
    /\ lastFrame = NoFrame
    /\ prevMetrics = EmptyTable
    /\ prevHistory = EmptyTable
    /\ received = 0
    /\ inflight = <<>>
    /\ applied = <<>>

NoToken == [kind |-> "null", chars |-> <<>>]

InitNoToken ==
    /\ clock = 0
    /\ token = NoToken
    /\ issued = [signed |-> FALSE, userId |-> 0, username |-> <<>>, ttlMs |-> 0, at |-> 0]
    /\ tampered = "none"
    /\ verified = [ran |-> FALSE, at |-> 0, outcome |-> "null", userId |-> 0, username |-> <<>>, exp |-> 0]
    /\ cookie = [value |-> NoToken, expires |-> 0]
    /\ response = [route |-> "none", at |-> 0, presented |-> NoToken, status |-> 0, location |-> "",
                   user |-> [found |-> FALSE, id |-> 0, username |-> <<>>],
                   setCookie |-> [set |-> FALSE, value |-> <<>>, maxAge |-> 0]]
    /\ copy = [value |-> NoToken, exp |-> 0]
    /\ loggedOut = FALSE

\* the monitor stream on an open connection
\* the users table before any call on it
NoCall == [call |-> "none", id |-> 0, threw |-> FALSE]
InitNoClients ==
    /\ users = <<>>
    /\ dbResult = NoCall

InitMon == InitOpen /\ InitTable /\ InitNoToken /\ InitNoClients
NextMon == \E data \in MonFrames, dt \in 0..1 : received < MaxFrames /\ OnMessage(data, dt)
SpecMon == InitMon /\ [][NextMon]_vars

\* snapshots with every combination of interface values
NextPeak == \E data \in PeakFrames, dt \in 0..1 : received < MaxPeakFrames /\ OnMessage(data, dt)
SpecPeak == InitMon /\ [][NextPeak]_vars

\* a long run of pushes for one router
NextCap == \E data \in CapFrames : now < MaxPushes /\ OnMessage(data, 1)
SpecCap == InitMon /\ [][NextCap]_vars

-----------------------------------------------------------------------------
(* Properties of the reconciliation *)

\* what the last frame was interpreted as
LastInterpreted == interpretMonitoringPayload(parseWebSocketMessage(lastFrame))

\* the identifiers the last frame's delta names in added, updated and removed
NamedIn(list) == {m.id : m \in Range(normalizeRouterPayload(list, now))}
LastAddedIds   == NamedIn(LastInterpreted.added)
LastUpdatedIds == NamedIn(LastInterpreted.updated)
LastRemovedIds == Range(extractRouterIdentifiers(LastInterpreted.removed))

\* the attributes of a metric and the keys of a raw item any of which supplies them
Attributes == {"cpu", "memory", "total", "active", "status", "name", "interfaces"}
AttributeKeys(attr) ==
    CASE attr = "cpu"        -> {"cpu", "cpu_usage", "resource", "cpuLoad", "cpu_load"}
      [] attr = "memory"     -> {"memory", "memory_usage", "resource", "memoryLoad", "memory_load"}
      [] attr = "total"      -> {"total", "pppoe_total", "pppoeTotal", "pppoe_count", "pppoe"}
      [] attr = "active"     -> {"active", "pppoe_active", "pppoeActive", "pppoe"}
      [] attr = "status"     -> {"status", "state", "health", "connectionStatus"}
      [] attr = "name"       -> {"name", "routerName", "router", "identity"}
      [] attr = "interfaces" -> {"interfaces", "interface", "ifaces", "traffic", "stats"}
KeysOf(item) == {item.e[i].k : i \in 1..Len(item.e)}
AbsentFrom(item, attr) == KeysOf(item) \cap AttributeKeys(attr) = {}

\* the partial items of the last delta's updated list that name a router which was in the
\* table, is named once in updated and is named neither in added nor in removed
PartialUpdates ==
    LET updated == LastInterpreted.updated
        IdOf(item) == pickIdentifier(Get(item, "id"))
    IN  {updated[i] : i \in {j \in 1..Len(updated) :
            /\ updated[j].t = "object"
            /\ IdOf(updated[j]) # JNull
            /\ IdOf(updated[j]).s \in DOMAIN prevMetrics
            /\ IdOf(updated[j]).s \notin LastAddedIds \cup LastRemovedIds
            /\ \A k \in 1..Len(updated) : k # j => normalizeRouterItem(updated[k], k - 1, now) = JNull
                                               \/ normalizeRouterItem(updated[k], k - 1, now).id # IdOf(updated[j]).s}}

\* C1: a delta's updated partial item for a router already in the table changes only the
\* attributes it carries; every attribute absent from the partial item keeps its value
C1_DeltaMergePreservesFields ==
    (received > 0 /\ LastInterpreted.kind = "delta") =>
        \A item \in PartialUpdates :
            \A attr \in Attributes :
                AbsentFrom(item, attr) =>
                    LET id == pickIdentifier(Get(item, "id")).s
                    IN  /\ id \in DOMAIN routerMetrics
                        /\ routerMetrics[id][attr] = prevMetrics[id][attr]

\* C2: after a full snapshot that normalizes to a non-empty set of routers, the keys of
\* the metric table are exactly the identifiers of that set
C2_FullSnapshotReplacesTable ==
    (received > 0 /\ LastInterpreted.kind = "full" /\ NamedIn(LastInterpreted.routers) # {}) =>
        DOMAIN routerMetrics = NamedIn(LastInterpreted.routers)

\* C2 witness: full {A, B} followed by full {B, C} leaves exactly {B, C}
C2_Witness ==
    /\ received = 2
    /\ LastInterpreted.kind = "full"
    /\ DOMAIN prevMetrics = {IdA, IdB}
    /\ DOMAIN routerMetrics = {IdB, IdC}

\* the routers the last delta's removed list names by bare identifier
BareRemoved ==
    LET removed == LastInterpreted.removed
    IN  {removed[i].s : i \in {j \in 1..Len(removed) : removed[j].t = "string"}}
        \cup {NumText(removed[i].n) : i \in {j \in 1..Len(removed) : removed[j].t = "number"}}

\* C3: a delta whose removed list holds the bare identifier of a router in the table
\* leaves that router in neither the table nor the history, and leaves every router the
\* delta does not name as it was in both
C3_DeltaRemoval ==
    (received > 0 /\ LastInterpreted.kind = "delta" /\ BareRemoved \cap DOMAIN prevMetrics # {}) =>
        /\ \A id \in BareRemoved \cap DOMAIN prevMetrics :
              id \notin DOMAIN routerMetrics /\ id \notin DOMAIN history
        /\ \A id \in DOMAIN prevMetrics \ (LastAddedIds \cup LastUpdatedIds \cup LastRemovedIds) :
              /\ id \in DOMAIN routerMetrics
              /\ routerMetrics[id] = prevMetrics[id]
              /\ id \in DOMAIN prevHistory => id \in DOMAIN history /\ history[id] = prevHistory[id]

\* C3 witness: A and B present, then removed ["A"]: A is gone, B and its history stay
C3_Witness ==
    /\ received = 2
    /\ LastInterpreted.kind = "delta"
    /\ BareRemoved = {IdA}
    /\ DOMAIN prevMetrics = {IdA, IdB}
    /\ IdA \in DOMAIN prevHistory
    /\ DOMAIN routerMetrics = {IdB}
    /\ DOMAIN history = {IdB}

\* the last n elements of seq, in order
LastPoints(seq, n) == [i \in 1..(IF Len(seq) < n THEN Len(seq) ELSE n) |->
                         seq[i + (IF Len(seq) < n THEN 0 ELSE Len(seq) - n)]]

\* C4: every history holds at most 60 points, oldest first; a handler that updates a
\* router appends its points at the end and, past 60, drops exactly the oldest
C4_HistoryCap ==
    [][\A id \in DOMAIN history' :
          LET new == history'[id]
              old == IF id \in DOMAIN history THEN history[id] ELSE <<>>
              appended == SelectSeq(new, LAMBDA p : p.timestamp = now')
          IN  /\ Len(new) <= 60
              /\ \A i \in 1..(Len(new) - 1) : new[i].timestamp <= new[i + 1].timestamp
              /\ (now' # now /\ id \in DOMAIN routerMetrics' /\ routerMetrics'[id].lastUpdatedAt = now')
                    => /\ Len(appended) >= 1
                       /\ new = LastPoints(old \o appended, 60)]_vars

\* C4 witness: 70 pushes for one router leave the points of the last 60, oldest first
C4_Witness ==
    /\ now = 70
    /\ IdA \in DOMAIN history
    /\ Len(history[IdA]) = 60
    /\ \A i \in 1..60 : history[IdA][i].timestamp = 10 + i

\* the number a raw receive/transmit value contributes to the peak, as a set
Contribution(raw) ==
    CASE raw.t = "number"  -> {raw.n}
      [] raw = JStr(TxtMbps) -> {124}
      [] raw = JStr(TxtKbps) -> {12340}
      [] OTHER -> {}

\* the raw receive and transmit values of the router of a one-router snapshot
RawTraffic(frame) ==
    LET item == frame.text[1].value.a[1]
        list == Get(item, "interfaces")
        obj  == Get(item, "traffic")
    IN  IF list.t = "array"
        THEN UNION {{Get(list.a[i], "rx"), Get(list.a[i], "tx"), Get(list.a[i], "download")} :
                      i \in 1..Len(list.a)}
        ELSE {obj.e[i].v : i \in 1..Len(obj.e)}

\* C10: the peakTraffic of the point a snapshot appends is the maximum of the numbers its
\* router's interface values contribute ("12.4 Mbps" gives 12.4, "n/a" and null nothing),
\* and null exactly when none contributes
C10_PeakTraffic ==
    received > 0 =>
        LET numbers == UNION {Contribution(raw) : raw \in RawTraffic(lastFrame)}
            point == history[IdA][Len(history[IdA])]
        IN  /\ point.timestamp = now
            /\ point.peakTraffic =
                  IF numbers = {} THEN JNull
                  ELSE JNum(CHOOSE n \in numbers : \A m \in numbers : m <= n)

\* C10 witness: "12.4 Mbps" beside "n/a" gives the peak 12.4
C10_Witness ==
    /\ received > 0
    /\ lastFrame = PeakFrame(JStr(TxtMbps), JStr(TxtNA), JUndef)
    /\ history[IdA][Len(history[IdA])].peakTraffic = JNum(124)

-----------------------------------------------------------------------------
(* Session token: encodings (auth.ts).                                            *)
(* Texts are sequences of characters.  JSON texts abbreviate the key names userId, *)
(* username and exp to u, n and e, and the header object to {J}.  base64url is a   *)
(* radix conversion of each character code into two symbols of a dot-free alphabet *)
(* (eight symbols here, sixty-four in the source).  HMAC-SHA256 is an ideal keyed  *)
(* function: the tag determines the key and the message.                           *)

\* largest Date.now() of the token runs (model bound)
MaxClock == 3

\* largest ttlMs passed to signAuthToken (model bound)
MaxTtl == 2

\* largest userId (model bound)
MaxUserId == 1

Quote == "\""
B64Symbols == <<"A", "B", "C", "D", "E", "F", "G", "H">>
Characters ==
    B64Symbols \o <<".", "{", "}", ",", ":", Quote>> \o Digits
               \o <<"u", "n", "e", "l", "a", "b", "J", "K", "x", "0xC3", "0xA9">>

IsB64(c) == \E i \in 1..8 : B64Symbols[i] = c
B64Value(c) == (CHOOSE i \in 1..8 : B64Symbols[i] = c) - 1
CharCode(c) == (CHOOSE i \in 1..Len(Characters) : Characters[i] = c) - 1

RECURSIVE Flatten(_)
Flatten(seqs) ==
    IF seqs = <<>> THEN <<>>
    ELSE IF Len(seqs) = 1 THEN seqs[1]
    ELSE Flatten(SubSeq(seqs, 1, Len(seqs) \div 2))
            \o Flatten(SubSeq(seqs, (Len(seqs) \div 2) + 1, Len(seqs)))

\* Buffer.from(text).toString("base64url")
Base64UrlEncode(text) ==
    Flatten([i \in 1..Len(text) |->
                <<B64Symbols[(CharCode(text[i]) \div 8) + 1], B64Symbols[(CharCode(text[i]) % 8) + 1]>>])

\* the character with the given code; codes past the alphabet are some other byte
CharOf(code) == IF code < Len(Characters) THEN Characters[code + 1] ELSE "?"

\* the decoding of a sequence of valid symbols
DecodeSymbols(valid) ==
    [i \in 1..(Len(valid) \div 2) |-> CharOf(B64Value(valid[2 * i - 1]) * 8 + B64Value(valid[2 * i]))]

\* Buffer.from(str, "base64url").toString("utf8"): symbols outside the alphabet are
\* skipped, an incomplete last group is dropped, nothing throws
Base64UrlDecode(str) == DecodeSymbols(SelectSeq(str, IsB64))

\* the UTF-8 bytes of a character: the two-byte character U+00E9, else one byte
Utf8(c) == IF c = "U+00E9" THEN <<"0xC3", "0xA9">> ELSE <<c>>

\* Buffer.from(a)
BufferFrom(a) == Flatten([i \in 1..Len(a) |-> Utf8(a[i])])

\* JSON.stringify({ userId, username, exp })
StringifyClaims(userId, username, exp) ==
    <<"{", "u", ":">> \o NatText(userId) \o <<",", "n", ":", Quote>> \o username
        \o <<Quote, ",", "e", ":">> \o NatText(exp) \o <<"}">>

\* JSON.stringify({ alg: "HS256", typ: "JWT" })
HeaderJson == <<"{", "J", "}">>

\* text.slice(i - 1, j): the characters at positions i..j that the text has
Slice(text, i, j) ==
    IF i > Len(text) THEN <<>> ELSE SubSeq(text, i, IF j < Len(text) THEN j ELSE Len(text))

\* position of the first c in text at or after i, or 0
FirstAt(text, c, i) ==
    LET hits == {j \in i..Len(text) : text[j] = c}
    IN  IF hits = {} THEN 0 ELSE CHOOSE j \in hits : \A k \in hits : j <= k

SyntaxError == [ok |-> FALSE, kind |-> "none", userId |-> 0, username |-> <<>>, exp |-> 0]
Parsed(kind, userId, username, exp) ==
    [ok |-> TRUE, kind |-> kind, userId |-> userId, username |-> username, exp |-> exp]

\* the text from its exp member on (position i is just past the username's closing quote):
\* "}" (no exp), ,e:<digits>} (a number) or ,e:"<chars>"} (a string)
ParseExp(text, userId, username, i) ==
    IF Slice(text, i, Len(text)) = <<"}">> THEN Parsed("noexp", userId, username, 0)
    ELSE IF Slice(text, i, i + 2) # <<",", "e", ":">> THEN SyntaxError
    ELSE IF DigitRun(text, i + 3) > 0 /\ Slice(text, i + 3 + DigitRun(text, i + 3), Len(text)) = <<"}">>
         THEN Parsed("claims", userId, username, DigitsValue(text, i + 3, DigitRun(text, i + 3)))
    ELSE IF Len(text) >= i + 5 /\ text[i + 3] = Quote /\ FirstAt(text, Quote, i + 4) = Len(text) - 1
            /\ text[Len(text)] = "}"
         THEN Parsed("stringexp", userId, username, 0)
    ELSE SyntaxError

\* the text from its username member on (position i is just past the userId's digits)
ParseName(text, userId, i) ==
    IF Slice(text, i, i + 3) # <<",", "n", ":", Quote>> \/ FirstAt(text, Quote, i + 4) = 0
    THEN SyntaxError
    ELSE ParseExp(text, userId, Slice(text, i + 4, FirstAt(text, Quote, i + 4) - 1),
                  FirstAt(text, Quote, i + 4) + 1)

\* JSON.parse of a body text: null, or an object { userId, username[, exp] }; any other
\* text is a syntax error
JsonParse(text) ==
    IF text = <<"n", "u", "l", "l">> THEN Parsed("null", 0, <<>>, 0)
    ELSE IF Slice(text, 1, 3) # <<"{", "u", ":">> \/ DigitRun(text, 4) = 0 THEN SyntaxError
    ELSE ParseName(text, DigitsValue(text, 4, DigitRun(text, 4)), 4 + DigitRun(text, 4))

\* token.split(".")
RECURSIVE Split(_)
Split(text) ==
    IF FirstAt(text, ".", 1) = 0 THEN <<text>>
    ELSE <<SubSeq(text, 1, FirstAt(text, ".", 1) - 1)>>
            \o Split(SubSeq(text, FirstAt(text, ".", 1) + 1, Len(text)))

-----------------------------------------------------------------------------
(* Session token: auth.ts *)

\* HEADER_B64
HEADER_B64 == Base64UrlEncode(HeaderJson)

\* getSecret()
getSecret == <<"K">>

\* crypto.createHmac("sha256", secret).update(message).digest("base64url"), over the
\* UTF-8 bytes of the key and of the message
HmacDigest(secret, message) == Base64UrlEncode(BufferFrom(secret \o message))

\* the token string of a body segment: header, body and their signature
TokenOf(body) ==
    HEADER_B64 \o <<".">> \o body \o <<".">> \o HmacDigest(getSecret, HEADER_B64 \o <<".">> \o body)

\* (mutant) the body left as JSON text, not base64url-encoded
signAuthTokenPlainBody(userId, username, ttlMs, nowMs) ==
    TokenOf(StringifyClaims(userId, username, nowMs + ttlMs))

\* signAuthToken at Date.now() = nowMs
signAuthToken(userId, username, ttlMs, nowMs) ==
    TokenOf(Base64UrlEncode(StringifyClaims(userId, username, nowMs + ttlMs)))

\* crypto.timingSafeEqual: throws on buffers of different lengths
CryptoTimingSafeEqual(aBuf, bBuf) ==
    IF Len(aBuf) # Len(bBuf) THEN "throw" ELSE IF aBuf = bBuf THEN "true" ELSE "false"

\* (mutant) the lengths of the strings compared, not of the buffers
timingSafeEqualOnStringLength(a, b) ==
    IF Len(a) # Len(b) THEN "false" ELSE CryptoTimingSafeEqual(BufferFrom(a), BufferFrom(b))

\* (mutant) only the lengths compared
timingSafeEqualLengthOnly(a, b) ==
    IF Len(BufferFrom(a)) # Len(BufferFrom(b)) THEN "false" ELSE "true"

\* timingSafeEqual
timingSafeEqual(a, b) ==
    IF Len(BufferFrom(a)) # Len(BufferFrom(b)) THEN "false"
    ELSE CryptoTimingSafeEqual(BufferFrom(a), BufferFrom(b))

Invalid == [outcome |-> "null", userId |-> 0, username |-> <<>>, exp |-> 0]
Thrown  == [outcome |-> "throw", userId |-> 0, username |-> <<>>, exp |-> 0]

\* the try block of verifyAuthToken: JSON.parse throws on a syntax error and payload.exp
\* throws on null, both caught; typeof payload.exp !== "number" || payload.exp < Date.now()
VerifyPayload(payload, nowMs) ==
    IF ~payload.ok \/ payload.kind = "null" THEN Invalid
    ELSE IF payload.kind # "claims" \/ payload.exp < nowMs THEN Invalid
    ELSE [outcome |-> "payload", userId |-> payload.userId, username |-> payload.username,
          exp |-> payload.exp]

\* verifyAuthToken from the signature comparison on
VerifySignature(equal, body, nowMs) ==
    IF equal = "throw" THEN Thrown
    ELSE IF equal = "false" THEN Invalid
    ELSE VerifyPayload(JsonParse(Base64UrlDecode(body)), nowMs)

\* verifyAuthToken from `const [header, body, signature] = parts` on
VerifyParts(parts, nowMs) ==
    IF Len(parts) # 3 THEN Invalid
    ELSE IF parts[1] # HEADER_B64 THEN Invalid
    ELSE VerifySignature(timingSafeEqual(HmacDigest(getSecret, parts[1] \o <<".">> \o parts[2]),
                                         parts[3]),
                         parts[2], nowMs)

\* (mutant) tokens refused once a logout has been served
verifyAuthTokenRevokedByLogout(tok, nowMs) ==
    IF loggedOut \/ tok.kind = "null" \/ tok.chars = <<>> THEN Invalid
    ELSE VerifyParts(Split(tok.chars), nowMs)

\* verifyAuthToken at Date.now() = nowMs; tok is null or a string
verifyAuthToken(tok, nowMs) ==
    IF tok.kind = "null" \/ tok.chars = <<>> THEN Invalid ELSE VerifyParts(Split(tok.chars), nowMs)

-----------------------------------------------------------------------------
(* Session token: callers of signAuthToken and verifyAuthToken *)

Usernames == {<<"a">>, <<"a", ".", "b">>}
TamperCharacters == {"A", "H", ".", "U+00E9"}

Str(chars) == [kind |-> "string", chars |-> chars]
NotVerified ==
    [ran |-> FALSE, at |-> 0, outcome |-> "null", userId |-> 0, username |-> <<>>, exp |-> 0]
NotIssued == [signed |-> FALSE, userId |-> 0, username |-> <<>>, ttlMs |-> 0, at |-> 0]

\* body texts that are not claims: no JSON, the empty text, null, claims without exp,
\* claims whose exp is a string
BodiesWithoutClaims ==
    { <<"x">>, <<>>, <<"n", "u", "l", "l">>,
      <<"{", "u", ":", "1", ",", "n", ":", Quote, "a", Quote, "}">>,
      <<"{", "u", ":", "1", ",", "n", ":", Quote, "a", Quote, ",", "e", ":", Quote, "9", Quote, "}">> }

\* tokens no signAuthToken call made: null, "", two and four segments, another header,
\* a signature of another length, and correctly signed bodies that are not claims
MalformedTokens ==
    { NoToken, Str(<<>>), Str(<<"a", ".", "b">>), Str(<<"a", ".", "b", ".", "c", ".", "d">>),
      Str(<<"A", "A">> \o SubSeq(TokenOf(<<"A", "B">>), Len(HEADER_B64) + 1, Len(TokenOf(<<"A", "B">>)))),
      Str(HEADER_B64 \o <<".", "A", "B", ".", "A">>) }
      \cup { Str(TokenOf(Base64UrlEncode(body))) : body \in BodiesWithoutClaims }

\* the segment of a token that position pos lies in
SegmentAt(chars, pos) ==
    LET dots == Cardinality({j \in 1..pos : chars[j] = "."})
    IN  IF dots = 0 THEN "header" ELSE IF dots = 1 THEN "body" ELSE "signature"

\* a caller signs a token for a user (signAuthToken); a run follows one cookie
\* value from the moment it is made
Sign(userId, username, ttlMs) ==
    /\ token = NoToken /\ tampered = "none"
    /\ token' = Str(signAuthToken(userId, username, ttlMs, clock))
    /\ issued' = [signed |-> TRUE, userId |-> userId, username |-> username, ttlMs |-> ttlMs,
                  at |-> clock]
    /\ tampered' = "none"
    /\ verified' = NotVerified
    /\ UNCHANGED <<clock, sessionVars, hookVars, monVars, dbVars>>

\* the holder of a signed token replaces one character of one segment
Tamper(pos, ch) ==
    /\ issued.signed
    /\ tampered = "none"
    /\ pos \in 1..Len(token.chars)
    /\ token.chars[pos] \notin {".", ch}
    /\ token' = Str([token.chars EXCEPT ![pos] = ch])
    /\ tampered' = SegmentAt(token.chars, pos)
    /\ verified' = NotVerified
    /\ UNCHANGED <<clock, issued, sessionVars, hookVars, monVars, dbVars>>

\* a request arrives with a cookie value that no signAuthToken call made
Present(tok) ==
    /\ token = NoToken /\ tampered = "none"
    /\ token' = tok
    /\ issued' = NotIssued
    /\ tampered' = "malformed"
    /\ verified' = NotVerified
    /\ UNCHANGED <<clock, sessionVars, hookVars, monVars, dbVars>>

\* a route verifies the cookie value (verifyAuthToken(token))
Verify ==
    /\ ~verified.ran
    /\ verified' = [ran |-> TRUE, at |-> clock] @@ verifyAuthToken(token, clock)
    /\ UNCHANGED <<clock, token, issued, tampered, sessionVars, hookVars, monVars, dbVars>>

\* a millisecond passes
Tick ==
    /\ clock < MaxClock
    /\ clock' = clock + 1
    /\ verified' = NotVerified
    /\ UNCHANGED <<token, issued, tampered, sessionVars, hookVars, monVars, dbVars>>

InitAuth == InitOpen /\ InitTable /\ InitNoToken /\ InitNoClients
NextAuth ==
    \/ \E userId \in 1..MaxUserId, username \in Usernames, ttlMs \in 1..MaxTtl :
          Sign(userId, username, ttlMs)
    \/ \E pos \in 1..Len(token.chars), ch \in TamperCharacters : Tamper(pos, ch)
    \/ \E tok \in MalformedTokens : Present(tok)
    \/ Verify
    \/ Tick
SpecAuth == InitAuth /\ [][NextAuth]_vars

-----------------------------------------------------------------------------
(* Session token: properties *)

\* the token is as signAuthToken returned it
Untouched == issued.signed /\ tampered = "none"

\* C5: a token verified as signed, with the same secret, at a clock value before
\* issue-time + ttl yields claims with the signed userId and username and with
\* exp = issue-time + ttl.
C5_TokenRoundTrip ==
    (Untouched /\ verified.ran /\ clock < issued.at + issued.ttlMs) =>
        /\ verified.outcome = "payload"
        /\ verified.userId = issued.userId
        /\ verified.username = issued.username
        /\ verified.exp = issued.at + issued.ttlMs

\* a token for a username with a dot, signed after the epoch and verified in the last
\* millisecond before its expiry
C5_Witness ==
    /\ Untouched /\ verified.ran
    /\ issued.username = <<"a", ".", "b">>
    /\ issued.at > 0 /\ issued.ttlMs > 1
    /\ clock = issued.at + issued.ttlMs - 1
    /\ verified.outcome = "payload"

\* C6: a correctly signed token whose exp is less than or equal to the clock value at
\* verification is invalid (null), the boundary instant exp = now included.
C6_ExpiredTokenInvalid ==
    (Untouched /\ verified.ran /\ issued.at + issued.ttlMs <= clock) => verified.outcome = "null"

\* C7: a signed token with one character of its header, body or signature segment
\* replaced by a different character is invalid.
C7_TamperResistance ==
    (tampered \in {"header", "body", "signature"} /\ verified.ran) => verified.outcome = "null"

\* a body character of an unexpired token replaced by another symbol of the encoding
C7_Witness ==
    /\ tampered = "body" /\ verified.ran
    /\ clock < issued.at + issued.ttlMs
    /\ \A i \in 1..Len(token.chars) : token.chars[i] = "." \/ IsB64(token.chars[i])
    /\ Len(Split(token.chars)) = 3
    /\ verified.outcome = "null"

\* C8: verifyAuthToken never throws, and null, the empty string, a string of other than
\* three segments, a string with another header and a correctly signed body that is not
\* claims all give the invalid result (null).
C8_MalformedInputInvalid ==
    verified.ran =>
        /\ verified.outcome # "throw"
        /\ tampered = "malformed" => verified.outcome = "null"

\* the fixed header, a body and a signature of another length than the expected one
C8_Witness ==
    /\ tampered = "malformed" /\ verified.ran
    /\ token = Str(HEADER_B64 \o <<".", "A", "B", ".", "A">>)
    /\ verified.outcome = "null"

-----------------------------------------------------------------------------
(* Connection life cycle: the effect of useRouterMonitoring (page.tsx).             *)
(* socket is the readyState of the WebSocket the closure variable holds ("none"     *)
(* for null); reconnectTimer is "null", "pending" (a timeout that will fire) or     *)
(* "stale" (the id of a timeout that fired or was cleared: the code never resets    *)
(* the variable).  connects counts the invocations of connect().                    *)

\* connect() invocations followed (model bound)
MaxConnects == 3

ConnectOutcomes == {"unsupported", "throws", "created"}

\* scheduleReconnect: the number of armed timeouts after it, when reconnectTimer is timer and
\* count timeouts are armed: clearTimeout disarms a pending one, setTimeout arms one
scheduleReconnect(timer, count) == (IF timer = "pending" THEN count - 1 ELSE count) + 1

\* (mutant) connect() whose catch does not call scheduleReconnect()
connectWithoutRetry(outcome, timer, count) ==
    /\ connects' = connects + 1
    /\ lastConnect' = outcome
    /\ lastError' = CASE outcome = "unsupported" -> "unsupported"
                      [] outcome = "throws" -> "constructor"
                      [] OTHER -> "none"
    /\ connectionState' = IF outcome = "created" THEN "connecting" ELSE "closed"
    /\ socket' = IF outcome = "created" THEN "connecting" ELSE socket
    /\ reconnectTimer' = timer
    /\ armed' = count

\* connect(): window.WebSocket undefined, the constructor throwing, or a socket created;
\* timer is the value of reconnectTimer and count the number of armed timeouts when it is
\* called
connect(outcome, timer, count) ==
    /\ connects' = connects + 1
    /\ lastConnect' = outcome
    /\ lastError' = CASE outcome = "unsupported" -> "unsupported"
                      [] outcome = "throws" -> "constructor"
                      [] OTHER -> "none"
    /\ connectionState' = IF outcome = "created" THEN "connecting" ELSE "closed"
    /\ socket' = IF outcome = "created" THEN "connecting" ELSE socket
    /\ reconnectTimer' = IF outcome = "throws" THEN "pending" ELSE timer
    /\ armed' = IF outcome = "throws" THEN scheduleReconnect(timer, count) ELSE count

\* the effect runs: its first connect()
Mount ==
    /\ connects = 0
    /\ \E outcome \in ConnectOutcomes : connect(outcome, reconnectTimer, armed)
    /\ UNCHANGED <<shouldReconnect, tornDown, connectsAtTeardown, afterTeardown>>
    /\ UNCHANGED <<routerMetrics, history, now, lastFrame, prevMetrics, prevHistory, received,
                   inflight, applied>>
    /\ UNCHANGED <<authVars, dbVars>>

\* the timeout set by scheduleReconnect fires: connect()
TimerFires ==
    /\ reconnectTimer = "pending"
    /\ connects < MaxConnects
    /\ \E outcome \in ConnectOutcomes : connect(outcome, "stale", armed - 1)
    /\ afterTeardown' = IF tornDown THEN afterTeardown \cup {"timer"} ELSE afterTeardown
    /\ UNCHANGED <<shouldReconnect, tornDown, connectsAtTeardown>>
    /\ UNCHANGED <<routerMetrics, history, now, lastFrame, prevMetrics, prevHistory, received,
                   inflight, applied>>
    /\ UNCHANGED <<authVars, dbVars>>

\* (mutant) onopen arming the reconnect timeout
OnOpenSchedulesReconnect ==
    /\ socket = "connecting"
    /\ socket' = "open"
    /\ connectionState' = "open"
    /\ reconnectTimer' = "pending"
    /\ armed' = scheduleReconnect(reconnectTimer, armed)
    /\ UNCHANGED <<shouldReconnect, tornDown, connects, lastConnect,
                   connectsAtTeardown, afterTeardown, monVars, authVars, dbVars>>

\* socket.onopen
OnOpen ==
    /\ socket = "connecting"
    /\ socket' = "open"
    /\ connectionState' = "open"
    /\ UNCHANGED <<reconnectTimer, shouldReconnect, armed, tornDown, connects, lastConnect,
                   connectsAtTeardown, afterTeardown, monVars, authVars, dbVars>>

\* (mutant) onerror also arms a timeout for connect, without keeping its handle
OnErrorArmsTimeout ==
    /\ socket \in {"connecting", "open", "closing"}
    /\ lastError' = "socket"
    /\ socket' = "closing"
    /\ armed' = armed + 1
    /\ afterTeardown' = IF tornDown THEN afterTeardown \cup {"error"} ELSE afterTeardown
    /\ UNCHANGED <<connectionState, reconnectTimer, shouldReconnect, tornDown,
                   connects, lastConnect, connectsAtTeardown>>
    /\ UNCHANGED <<routerMetrics, history, now, lastFrame, prevMetrics, prevHistory, received,
                   inflight, applied>>
    /\ UNCHANGED <<authVars, dbVars>>

\* socket.onerror: the connection has failed, and the one event the socket still fires is
\* its close event
OnError ==
    /\ socket \in {"connecting", "open", "closing"}
    /\ lastError' = "socket"
    /\ socket' = "closing"
    /\ afterTeardown' = IF tornDown THEN afterTeardown \cup {"error"} ELSE afterTeardown
    /\ UNCHANGED <<connectionState, reconnectTimer, shouldReconnect, armed, tornDown,
                   connects, lastConnect, connectsAtTeardown>>
    /\ UNCHANGED <<routerMetrics, history, now, lastFrame, prevMetrics, prevHistory, received,
                   inflight, applied>>
    /\ UNCHANGED <<authVars, dbVars>>

\* (mutant) scheduleReconnect() without the shouldReconnect test
OnCloseAlwaysReschedules ==
    /\ socket \in {"connecting", "open", "closing"}
    /\ socket' = "closed"
    /\ connectionState' = "closed"
    /\ reconnectTimer' = "pending"
    /\ armed' = scheduleReconnect(reconnectTimer, armed)
    /\ afterTeardown' = IF tornDown THEN afterTeardown \cup {"close"} ELSE afterTeardown
    /\ UNCHANGED <<shouldReconnect, tornDown, connects, lastConnect, connectsAtTeardown,
                   monVars, authVars, dbVars>>

\* socket.onclose: the close event of the socket, fired once
OnClose ==
    /\ socket \in {"connecting", "open", "closing"}
    /\ socket' = "closed"
    /\ connectionState' = "closed"
    /\ reconnectTimer' = IF shouldReconnect THEN "pending" ELSE reconnectTimer
    /\ armed' = IF shouldReconnect THEN scheduleReconnect(reconnectTimer, armed) ELSE armed
    /\ afterTeardown' = IF tornDown THEN afterTeardown \cup {"close"} ELSE afterTeardown
    /\ UNCHANGED <<shouldReconnect, tornDown, connects, lastConnect, connectsAtTeardown,
                   monVars, authVars, dbVars>>

\* (mutant) the cleanup without clearTimeout(reconnectTimer)
CleanupKeepsTimer ==
    /\ connects > 0
    /\ shouldReconnect' = FALSE
    /\ socket' = IF socket \in {"open", "connecting"} THEN "closing" ELSE socket
    /\ tornDown' = TRUE
    /\ connectsAtTeardown' = IF tornDown THEN connectsAtTeardown ELSE connects
    /\ afterTeardown' = IF tornDown THEN afterTeardown \cup {"cleanup"} ELSE afterTeardown
    /\ UNCHANGED <<reconnectTimer, armed, connectionState, connects, lastConnect, monVars,
                   authVars, dbVars>>

\* the cleanup the effect returns (teardown), run once or again
Cleanup ==
    /\ connects > 0
    /\ shouldReconnect' = FALSE
    /\ reconnectTimer' = IF reconnectTimer = "null" THEN "null" ELSE "stale"
    /\ armed' = IF reconnectTimer = "pending" THEN armed - 1 ELSE armed
    /\ socket' = IF socket \in {"open", "connecting"} THEN "closing" ELSE socket
    /\ tornDown' = TRUE
    /\ connectsAtTeardown' = IF tornDown THEN connectsAtTeardown ELSE connects
    /\ afterTeardown' = IF tornDown THEN afterTeardown \cup {"cleanup"} ELSE afterTeardown
    /\ UNCHANGED <<connectionState, connects, lastConnect, monVars, authVars, dbVars>>

\* the hook before its effect has run
InitHook ==
    /\ connectionState = "connecting"
    /\ socket = "none"
    /\ reconnectTimer = "null"
    /\ shouldReconnect = TRUE
    /\ armed = 0
    /\ tornDown = FALSE
    /\ connects = 0
    /\ lastConnect = "none"
    /\ connectsAtTeardown = 0
    /\ afterTeardown = {}
    /\ InitTable
    /\ InitNoToken
    /\ InitNoClients

\* frames received while a socket is open (model bound)
MaxHookFrames == 2

\* a snapshot of one router, a delta that updates it, and a text that is no JSON
HookFrames ==
    { TextFrame(JArr(<<ItemA>>)), TextFrame(DeltaMessage(<<>>, <<ItemACpu>>, <<>>)),
      [type |-> "string", text |-> <<RawLine(<<"x">>)>>] }

NextHook ==
    \/ Mount
    \/ TimerFires
    \/ OnOpen
    \/ \E data \in HookFrames : received < MaxHookFrames /\ OnMessage(data, 1)
    \/ \E data \in HookFrames : received < MaxHookFrames /\ OnBlobMessage(AsBlob(data))
    \/ \E i \in 1..Len(inflight) : BlobResolved(i)
    \/ \E i \in 1..Len(inflight) : BlobRejected(i)
    \/ OnError
    \/ OnClose
    \/ Cleanup
SpecHook == InitHook /\ [][NextHook]_vars

\* the same with the timer's guarantee: a timeout that stays armed fires
SpecHookTimer == InitHook /\ [][NextHook]_vars /\ WF_vars(TimerFires)

\* C9: once the cleanup has run, no reconnect timer is pending and connect() is not
\* invoked again, whatever follows: a second cleanup, a late close event, an error
\* event; no timer set before the cleanup fires after it.
C9_NoReconnectAfterTeardown ==
    tornDown =>
        /\ reconnectTimer # "pending"
        /\ connects = connectsAtTeardown
        /\ "timer" \notin afterTeardown

\* a reconnect happened, then the cleanup ran on a live socket, and after it an error
\* event, the close event and a second cleanup
C9_Witness ==
    /\ tornDown
    /\ connects > 1
    /\ afterTeardown = {"error", "close", "cleanup"}
    /\ socket = "closed"
    /\ reconnectTimer = "stale"

-----------------------------------------------------------------------------
(* Properties of the connection life cycle *)

\* C11: on one connection the frames take effect on the metric table and the history in
\* the order they arrived, a Blob frame that is still being decoded included: no later
\* frame is applied before an earlier one.
C11_FramesAppliedInArrivalOrder ==
    \A i, j \in 1..Len(applied) : i < j => applied[i] < applied[j]

\* C12: whenever a new connection has been opened by connect() and has not delivered
\* data yet, the metric table and the history are empty.
C12_TablesEmptyOnNewConnection ==
    socket = "connecting" => routerMetrics = EmptyTable /\ history = EmptyTable

\* the step is the reconnect timer firing (connect() run by the timeout) before any teardown
ByTimerBeforeTeardown ==
    /\ reconnectTimer = "pending" /\ reconnectTimer' # "pending"
    /\ connects' = connects + 1
    /\ ~tornDown

\* C13 as stated: connectionState only moves connecting -> open, open -> closed and
\* closed -> connecting, the last only through the reconnect timer firing while teardown
\* has not been requested.
C13_OnlyThreeTransitions ==
    [][connectionState' # connectionState =>
          /\ <<connectionState, connectionState'>> \in
                {<<"connecting", "open">>, <<"open", "closed">>, <<"closed", "connecting">>}
          /\ connectionState = "closed" => ByTimerBeforeTeardown]_vars

\* C13 as amended: connectionState only moves connecting -> open, open -> closed,
\* connecting -> closed (an attempt that fails or is closed before it opens) and
\* closed -> connecting, the last only through the reconnect timer firing while teardown
\* has not been requested.
C13_LifecycleTransitions ==
    [][connectionState' # connectionState =>
          /\ <<connectionState, connectionState'>> \in
                {<<"connecting", "open">>, <<"open", "closed">>, <<"connecting", "closed">>,
                 <<"closed", "connecting">>}
          /\ connectionState = "closed" => ByTimerBeforeTeardown]_vars

\* a second connection is being opened: the first was closed and the timer fired
C13_Witness ==
    /\ connectionState = "connecting" /\ socket = "connecting"
    /\ connects > 1
    /\ reconnectTimer = "stale"
    /\ ~tornDown

\* C14 as stated: whenever the connection is closed and teardown has not been requested,
\* one reconnect is scheduled, however many attempts came before, and a new connect
\* attempt eventually follows (unless teardown is requested first).
C14_ReconnectAfterEveryClose ==
    /\ []((connectionState = "closed" /\ ~tornDown) => (reconnectTimer = "pending" /\ armed = 1))
    /\ \A n \in 1..(MaxConnects - 1) :
          (connectionState = "closed" /\ ~tornDown /\ connects = n) ~> (connects > n \/ tornDown)

\* C14 as amended: the same whenever the connection was closed by an error, a close or
\* the constructor throwing, not by window.WebSocket being missing.
C14_ReconnectAfterClose ==
    /\ []((connectionState = "closed" /\ ~tornDown /\ lastConnect # "unsupported") =>
              (reconnectTimer = "pending" /\ armed = 1))
    /\ \A n \in 1..(MaxConnects - 1) :
          (connectionState = "closed" /\ ~tornDown /\ lastConnect # "unsupported" /\ connects = n)
              ~> (connects > n \/ tornDown)

\* the constructor threw in a reconnect attempt and the next attempt is scheduled
C14_Witness ==
    /\ connectionState = "closed" /\ ~tornDown
    /\ connects > 1
    /\ lastConnect = "throws"
    /\ reconnectTimer = "pending" /\ armed = 1

\* C15: at most one reconnect timeout is armed at any time, and it is the one whose
\* handle reconnectTimer holds.
C15_SinglePendingReconnect ==
    /\ armed <= 1
    /\ armed = 1 <=> reconnectTimer = "pending"

\* a reconnect armed by the close of the second connection, after the first timeout
\* fired
C15_Witness ==
    /\ armed = 1 /\ reconnectTimer = "pending"
    /\ connects > 1
    /\ lastConnect = "created" /\ socket = "closed"

\* C16: once the cleanup has run, no reconnect timeout is armed, no socket is open or
\* connecting, and connectionState, lastError, the metric table and the history never
\* change again, whatever fires afterwards (the close event the cleanup caused, an error
\* event, the rest of a message handler).
C16_TeardownIsTerminal ==
    [][/\ tornDown' => (armed' = 0 /\ socket' \notin {"open", "connecting"})
       /\ tornDown => UNCHANGED <<connectionState, lastError, routerMetrics, history>>]_vars

\* the step is the start, the end or the failure of a message handler
HandlerStep == received' # received \/ inflight' # inflight

\* the step is a message handler failing (its catch runs)
HandlerFails == Len(inflight') < Len(inflight) /\ lastError' = "message"

-----------------------------------------------------------------------------
(* Session over HTTP: auth.ts cookies, api/login, api/logout, the protected layout *)
(*                                                                                  *)
(* A browser keeps the auth-token cookie and follows the Set-Cookie instruction of  *)
(* every response: a positive Max-Age stores the value until that many seconds have *)
(* passed, Max-Age 0 removes the cookie.  Browser and server read one clock.  A     *)
(* password digest in hexadecimal is written as a marker character followed by the  *)
(* text it digests.                                                                 *)

\* days the session runs cover (model bound)
MaxDays == 1

\* signAuthToken's default ttlMs
DefaultTtlMs == 24 * 60 * 60 * 1000

\* maxAge of the cookie set at login, in seconds
CookieMaxAge == 60 * 60 * 24

NoSetCookie == [set |-> FALSE, value |-> <<>>, maxAge |-> 0]
NoUser == [found |-> FALSE, id |-> 0, username |-> <<>>]

\* setAuthCookie(response, { userId, username }) at Date.now() = nowMs
setAuthCookie(userId, username, nowMs) ==
    [set |-> TRUE, value |-> signAuthToken(userId, username, DefaultTtlMs, nowMs),
     maxAge |-> CookieMaxAge]

\* (mutant) a logout response without the cookie instruction
clearAuthCookieNotSent == NoSetCookie

\* clearAuthCookie(response)
clearAuthCookie == [set |-> TRUE, value |-> <<>>, maxAge |-> 0]

\* hashWithAlgorithm(algorithm, value): the hex digest, 64 digits for sha256 and 32 for md5
hashWithAlgorithm(algorithm, value) == <<algorithm>> \o value

\* /^[a-f0-9]{64}$/i.test(stored) and /^[a-f0-9]{32}$/i.test(stored)
IsHex64(stored) == stored # <<>> /\ stored[1] = "sha256"
IsHex32(stored) == stored # <<>> /\ stored[1] = "md5"

\* timingSafeCompare(a, b): equal buffers of equal length, or equal padded buffers and a === b
timingSafeCompare(a, b) == a = b

\* the rows of admin_users; password is NULL where stored is FALSE
AdminUsers ==
    << [id |-> 1, username |-> <<"a">>, stored |-> TRUE,  password |-> <<"p">>],
       [id |-> 2, username |-> <<"b">>, stored |-> TRUE,
        password |-> hashWithAlgorithm("sha256", <<"q">>)],
       [id |-> 3, username |-> <<"x">>, stored |-> FALSE, password |-> <<>>] >>

\* SELECT id, username, password FROM admin_users WHERE username = ? LIMIT 1
SelectAdmin(username) ==
    LET UsernameIs(row) == row.username = username
    IN  SelectSeq(AdminUsers, UsernameIs)

\* the candidates of verifyAdminCredentials for a stored password
Candidates(stored, password) ==
    {password}
        \cup (IF IsHex64(stored) THEN {hashWithAlgorithm("sha256", password)} ELSE {})
        \cup (IF IsHex32(stored) THEN {hashWithAlgorithm("md5", password)} ELSE {})

\* verifyAdminCredentials from the rows of the query on
MatchRow(rows, password) ==
    IF rows = <<>> THEN NoUser
    ELSE IF ~rows[1].stored \/ rows[1].password = <<>> THEN NoUser
    ELSE IF ~\E candidate \in Candidates(rows[1].password, password) :
                timingSafeCompare(rows[1].password, candidate)
         THEN NoUser
    ELSE [found |-> TRUE, id |-> rows[1].id, username |-> rows[1].username]

\* verifyAdminCredentials(username, password); null is NoUser
verifyAdminCredentials(username, password) == MatchRow(SelectAdmin(username), password)

\* an HTTP response of the routes, with the instant and the auth-token cookie of its request
Response(route, nowMs, status, location, user, setCookie) ==
    [route |-> route, at |-> nowMs, presented |-> NoToken, status |-> status,
     location |-> location, user |-> user, setCookie |-> setCookie]

\* typeof body.username === "string" ? body.username.trim() : ""
UsernameOf(body) ==
    IF Get(body, "username").t = "string" THEN Trim(Get(body, "username").s) ELSE <<>>

\* typeof body.password === "string" ? body.password : ""
PasswordOf(body) ==
    IF Get(body, "password").t = "string" THEN Get(body, "password").s ELSE <<>>

\* (mutant) the 401 response carrying a cookie for the submitted name
LoginChecked401WithCookie(username, user, nowMs) ==
    IF ~user.found THEN Response("login", nowMs, 401, "", user, setAuthCookie(0, username, nowMs))
    ELSE Response("login", nowMs, 200, "", user, setAuthCookie(user.id, user.username, nowMs))

\* POST /api/login from `if (!user)` on
LoginChecked(username, user, nowMs) ==
    IF ~user.found THEN Response("login", nowMs, 401, "", user, NoSetCookie)
    ELSE Response("login", nowMs, 200, "", user, setAuthCookie(user.id, user.username, nowMs))

\* POST /api/login from `if (!username || !password)` on; the query rejects when the
\* database is down
LoginFields(username, password, db, nowMs) ==
    IF username = <<>> \/ password = <<>> THEN Response("login", nowMs, 400, "", NoUser, NoSetCookie)
    ELSE IF db = "down" THEN Response("login", nowMs, 500, "", NoUser, NoSetCookie)
    ELSE LoginChecked(username, verifyAdminCredentials(username, password), nowMs)

\* POST /api/login; request.json() rejects on a body that is no JSON text, and
\* body.username throws on null
LoginPOST(request, db, nowMs) ==
    IF ~request.json \/ request.body.t = "null"
    THEN Response("login", nowMs, 500, "", NoUser, NoSetCookie)
    ELSE LoginFields(UsernameOf(request.body), PasswordOf(request.body), db, nowMs)

\* POST /api/logout
LogoutPOST(nowMs) == Response("logout", nowMs, 200, "", NoUser, clearAuthCookie)

\* DELETE /api/login
LoginDELETE(nowMs) == Response("login-delete", nowMs, 200, "", NoUser, clearAuthCookie)

\* ProtectedLayout once verifyAuthToken has returned or thrown
LayoutResult(route, payload, nowMs) ==
    IF payload.outcome = "throw" THEN Response(route, nowMs, 500, "", NoUser, NoSetCookie)
    ELSE IF payload.outcome = "null" THEN Response(route, nowMs, 307, "/login", NoUser, NoSetCookie)
    ELSE Response(route, nowMs, 200, "", NoUser, NoSetCookie)

\* ProtectedLayout for a request whose auth-token cookie is tok (null without one)
ProtectedLayout(route, tok, nowMs) ==
    [LayoutResult(route, verifyAuthToken(tok, nowMs), nowMs) EXCEPT !.presented = tok]

\* the browser following the Set-Cookie instruction of a response
FollowSetCookie(jar, setCookie, nowMs) ==
    IF ~setCookie.set THEN jar
    ELSE IF setCookie.maxAge <= 0 THEN [value |-> NoToken, expires |-> 0]
    ELSE [value |-> Str(setCookie.value), expires |-> nowMs + setCookie.maxAge * 1000]

\* cookieStore.get(AUTH_COOKIE_NAME)?.value ?? null for a request of the browser
SentCookie(jar, nowMs) ==
    IF jar.value.kind = "null" \/ nowMs >= jar.expires THEN NoToken ELSE jar.value

\* the exp claim a holder reads in the body of a token
ExpOf(tok) == JsonParse(Base64UrlDecode(Split(tok.chars)[2])).exp

\* submitted login requests
Credentials(username, password) ==
    [json |-> TRUE,
     body |-> JObj(<<[k |-> "username", v |-> JStr(username)], [k |-> "password", v |-> JStr(password)]>>)]
LoginRequests ==
    {Credentials(u, p) : u \in {<<"a">>, <<" ", "a", " ">>, <<"b">>, <<"x">>, <<"e">>, <<" ">>},
                         p \in {<<"p">>, <<"q">>, hashWithAlgorithm("sha256", <<"q">>), <<>>}}
        \cup {[json |-> FALSE, body |-> JNull], [json |-> TRUE, body |-> JNull],
              [json |-> TRUE, body |-> JArr(<<>>)],
              [json |-> TRUE, body |-> JObj(<<[k |-> "username", v |-> JStr(<<"a">>)],
                                              [k |-> "password", v |-> JNum(1)]>>)]}

\* the instants of the session runs: around the start of each day
SessionInstants ==
    {d * DefaultTtlMs + e : d \in 0..MaxDays, e \in {0, 1}}
        \cup {d * DefaultTtlMs - 1 : d \in 1..MaxDays}

\* the browser posts credentials to /api/login and follows the response
PostLogin(request, db) ==
    /\ response' = LoginPOST(request, db, clock)
    /\ cookie' = FollowSetCookie(cookie, response'.setCookie, clock)
    /\ loggedOut' = (loggedOut /\ response'.status # 200)
    /\ UNCHANGED <<clock, token, issued, tampered, verified, copy, hookVars, monVars, dbVars>>

\* the browser posts to /api/logout and follows the response
PostLogout ==
    /\ response' = LogoutPOST(clock)
    /\ cookie' = FollowSetCookie(cookie, response'.setCookie, clock)
    /\ loggedOut' = TRUE
    /\ UNCHANGED <<clock, token, issued, tampered, verified, copy, hookVars, monVars, dbVars>>

\* the browser sends DELETE /api/login and follows the response
DeleteLogin ==
    /\ response' = LoginDELETE(clock)
    /\ cookie' = FollowSetCookie(cookie, response'.setCookie, clock)
    /\ loggedOut' = TRUE
    /\ UNCHANGED <<clock, token, issued, tampered, verified, copy, hookVars, monVars, dbVars>>

\* the browser requests a protected page
GetProtected ==
    /\ response' = ProtectedLayout("protected", SentCookie(cookie, clock), clock)
    /\ UNCHANGED <<clock, token, issued, tampered, verified, cookie, copy, loggedOut, hookVars, monVars, dbVars>>

\* the token of the browser's cookie is copied
CopyToken ==
    /\ SentCookie(cookie, clock) # NoToken
    /\ copy' = [value |-> cookie.value, exp |-> ExpOf(cookie.value)]
    /\ UNCHANGED <<clock, token, issued, tampered, verified, cookie, response, loggedOut, hookVars, monVars, dbVars>>

\* a holder of the copy requests a protected page with it
GetProtectedWithCopy ==
    /\ copy.value # NoToken
    /\ response' = ProtectedLayout("copy", copy.value, clock)
    /\ UNCHANGED <<clock, token, issued, tampered, verified, cookie, copy, loggedOut, hookVars, monVars, dbVars>>

\* time passes
Pass(t) ==
    /\ t > clock
    /\ clock' = t
    /\ UNCHANGED <<token, issued, tampered, verified, sessionVars, hookVars, monVars, dbVars>>

InitSession == InitTable /\ InitNoToken /\ InitOpen /\ InitNoClients

NextSession ==
    \/ \E request \in LoginRequests, db \in {"up", "down"} : PostLogin(request, db)
    \/ PostLogout
    \/ DeleteLogin
    \/ GetProtected
    \/ CopyToken
    \/ GetProtectedWithCopy
    \/ \E t \in SessionInstants : Pass(t)

SpecSession == InitSession /\ [][NextSession]_vars

-----------------------------------------------------------------------------
(* The login page and the protected pages for one cookie value *)

\* (mutant) the login page redirecting whenever a cookie is sent
LoginPageTrustsCookie(tok, nowMs) ==
    [(IF tok.kind = "null" \/ tok.chars = <<>>
      THEN Response("login-page", nowMs, 200, "", NoUser, NoSetCookie)
      ELSE Response("login-page", nowMs, 307, "/", NoUser, NoSetCookie))
     EXCEPT !.presented = tok]

\* LoginPage once `token && verifyAuthToken(token)` has a value or has thrown
LoginResult(payload, nowMs) ==
    IF payload.outcome = "throw" THEN Response("login-page", nowMs, 500, "", NoUser, NoSetCookie)
    ELSE IF payload.outcome = "payload"
         THEN Response("login-page", nowMs, 307, "/", NoUser, NoSetCookie)
    ELSE Response("login-page", nowMs, 200, "", NoUser, NoSetCookie)

\* LoginPage for a request whose auth-token cookie is tok (null without one)
LoginPage(tok, nowMs) ==
    [(IF tok.kind = "null" \/ tok.chars = <<>>
      THEN Response("login-page", nowMs, 200, "", NoUser, NoSetCookie)
      ELSE LoginResult(verifyAuthToken(tok, nowMs), nowMs))
     EXCEPT !.presented = tok]

\* a request for a protected page carrying the cookie value
VisitProtected ==
    /\ response' = ProtectedLayout("protected", token, clock)
    /\ UNCHANGED <<clock, token, issued, tampered, verified, cookie, copy, loggedOut,
                   hookVars, monVars, dbVars>>

\* a request for /login carrying the cookie value
VisitLogin ==
    /\ response' = LoginPage(token, clock)
    /\ UNCHANGED <<clock, token, issued, tampered, verified, cookie, copy, loggedOut,
                   hookVars, monVars, dbVars>>

\* positions of a token at which the pages' runs replace a character: in the header, in
\* the body and in the signature
PagesTamperPositions(chars) == {1, Len(HEADER_B64) + 2, Len(chars)}

NextPages ==
    \/ \E userId \in 1..MaxUserId, username \in Usernames, ttlMs \in 1..MaxTtl :
          Sign(userId, username, ttlMs)
    \/ \E pos \in PagesTamperPositions(token.chars), ch \in TamperCharacters : Tamper(pos, ch)
    \/ \E tok \in MalformedTokens : Present(tok)
    \/ Tick
    \/ VisitProtected
    \/ VisitLogin

SpecPages == InitAuth /\ [][NextPages]_vars

\* the page of the last response rendered
Rendered(r) == r.status = 200

\* C29: for every cookie value and instant exactly one of the protected page and the
\* login page renders: the protected layout redirects to /login exactly when
\* verifyAuthToken rejects the cookie and renders otherwise, the login page redirects to /
\* exactly when verifyAuthToken accepts it and renders otherwise.
C29_NoRedirectLoop ==
    /\ Rendered(ProtectedLayout("protected", token, clock)) # Rendered(LoginPage(token, clock))
    /\ response.route = "protected" =>
          /\ (response.status = 307 /\ response.location = "/login")
                <=> verifyAuthToken(response.presented, response.at).outcome = "null"
          /\ Rendered(response) <=> verifyAuthToken(response.presented, response.at).outcome = "payload"
    /\ response.route = "login-page" =>
          /\ (response.status = 307 /\ response.location = "/")
                <=> verifyAuthToken(response.presented, response.at).outcome = "payload"
          /\ Rendered(response) <=> verifyAuthToken(response.presented, response.at).outcome = "null"

\* the login page has rendered for a cookie whose signature was altered, at an instant
\* before the exp of the token it was made from
C29_Witness ==
    /\ response.route = "login-page"
    /\ Rendered(response)
    /\ response.presented = token
    /\ tampered = "signature"
    /\ response.at = clock
    /\ clock < issued.at + issued.ttlMs

-----------------------------------------------------------------------------
(* Properties of the session over HTTP *)

\* C17: a logout response (POST /api/logout or DELETE /api/login) sets the auth-token
\* cookie to the empty value with max-age 0; from then until the next successful login
\* the browser sends no token, and each of its requests for a protected page is
\* redirected to /login.
C17_LogoutDestroysSession ==
    /\ response.route \in {"logout", "login-delete"} =>
          /\ response.setCookie = [set |-> TRUE, value |-> <<>>, maxAge |-> 0]
          /\ cookie.value = NoToken
    /\ loggedOut =>
          /\ SentCookie(cookie, clock) = NoToken
          /\ response.route = "protected" => response.status = 307 /\ response.location = "/login"
    /\ response.route = "login" /\ response.status = 200 => ~loggedOut

\* a protected page was served to the browser's cookie, which a logout has removed, and
\* the next request for the page has been redirected
C17_Witness ==
    /\ loggedOut
    /\ copy.value # NoToken
    /\ verifyAuthToken(copy.value, clock).outcome = "payload"
    /\ response.route = "protected"
    /\ response.status = 307

\* C18: a token copied from the browser is accepted at every instant before its exp,
\* whatever logins and logouts the server has served since; before the copy's exp a
\* request carrying it gets the protected page.
C18_StatelessVerification ==
    response.route = "copy" /\ response.presented = copy.value /\ response.at < copy.exp
        => response.status = 200

\* the copy is accepted after the browser has logged out
C18_Witness ==
    /\ loggedOut
    /\ cookie.value = NoToken
    /\ response.route = "copy"
    /\ response.presented = copy.value
    /\ response.at > 0
    /\ response.at < copy.exp
    /\ response.status = 200

\* C19: a response of POST /api/login sets the auth-token cookie exactly when
\* verifyAdminCredentials returned a user, which is exactly when its status is 200; the
\* 400, 401 and 500 responses set no cookie; the token set verifies to the id and the
\* username of that user's row and expires 24 hours after the response.
C19_TokenOnlyAfterCredentialCheck ==
    response.route = "login" =>
        /\ response.setCookie.set <=> response.user.found
        /\ response.status = 200 <=> response.user.found
        /\ response.status \in {200, 400, 401, 500}
        /\ response.user.found =>
              /\ \E i \in 1..Len(AdminUsers) :
                    /\ AdminUsers[i].id = response.user.id
                    /\ AdminUsers[i].username = response.user.username
                    /\ AdminUsers[i].stored
              /\ verifyAuthToken(Str(response.setCookie.value), response.at) =
                    [outcome |-> "payload", userId |-> response.user.id,
                     username |-> response.user.username,
                     exp |-> response.at + 24 * 60 * 60 * 1000]
              /\ response.setCookie.maxAge = 24 * 60 * 60

\* a login with the password of a row whose digest is stored has set the cookie the
\* browser now holds, at an instant past the start of the run
C19_Witness ==
    /\ response.route = "login"
    /\ response.status = 200
    /\ response.user.id = 2
    /\ response.at > 0
    /\ cookie.value = Str(response.setCookie.value)

-----------------------------------------------------------------------------
(* Further properties of the reconciliation *)

\* the metric the last item of a normalized list stores under id
LastNamed(list, id) ==
    LET normalized == normalizeRouterPayload(list, now)
        last == CHOOSE i \in 1..Len(normalized) :
                    /\ normalized[i].id = id
                    /\ \A j \in (i + 1)..Len(normalized) : normalized[j].id # id
    IN  normalized[last]

\* C21: after a delta the keys of the metric table are the previous keys and the
\* identifiers of added and updated, without the identifiers of removed; an added item
\* that the delta neither updates nor removes is stored as it was sent, replacing the
\* entry of the same identifier; and an entry leaves the table only when a delta removes
\* it or a full snapshot that normalizes to some router does not hold it.
C21_DeltaKeySetReconciliation ==
    received > 0 =>
        /\ LastInterpreted.kind = "delta" =>
              /\ DOMAIN routerMetrics =
                    (DOMAIN prevMetrics \cup LastAddedIds \cup LastUpdatedIds) \ LastRemovedIds
              /\ \A id \in LastAddedIds \ (LastUpdatedIds \cup LastRemovedIds) :
                    routerMetrics[id] = LastNamed(LastInterpreted.added, id)
        /\ \A id \in DOMAIN prevMetrics \ DOMAIN routerMetrics :
              \/ LastInterpreted.kind = "delta" /\ id \in LastRemovedIds
              \/ /\ LastInterpreted.kind = "full"
                 /\ NamedIn(LastInterpreted.routers) # {}
                 /\ id \notin NamedIn(LastInterpreted.routers)

\* B and C in the table, then a delta that updates the unknown A and removes B
C21_Witness ==
    /\ received = 2
    /\ LastInterpreted.kind = "delta"
    /\ DOMAIN prevMetrics = {IdB, IdC}
    /\ LastUpdatedIds = {IdA}
    /\ LastRemovedIds = {IdB}
    /\ DOMAIN routerMetrics = {IdA, IdC}

\* the lines of a frame handled as frames of their own, one after the other
RECURSIVE HandleEach(_, _, _, _)
HandleEach(lines, timestamp, metrics, hist) ==
    IF lines = <<>> THEN [routerMetrics |-> metrics, history |-> hist]
    ELSE LET r == HandleMessage([type |-> "string", text |-> <<Head(lines)>>], timestamp,
                                metrics, hist)
         IN  HandleEach(Tail(lines), timestamp, r.routerMetrics, r.history)

\* a text of more than one non-blank line, each of them a JSON document
IsMultiPayload(frame) ==
    /\ frame.type = "string"
    /\ Len(Segments(frame.text)) > 1
    /\ \A i \in 1..Len(frame.text) : Trim(frame.text[i].raw) # <<>> => frame.text[i].ok

\* C23: a text frame of N > 1 lines, each a JSON payload, leaves the metric table and
\* the history as N frames carrying the payloads one at a time in the same order would.
C23_MultiPayloadFrames ==
    (received > 0 /\ IsMultiPayload(lastFrame)) =>
        /\ routerMetrics = HandleEach(Segments(lastFrame.text), now, prevMetrics, prevHistory).routerMetrics
        /\ history = HandleEach(Segments(lastFrame.text), now, prevMetrics, prevHistory).history

\* the entries of the last delta's removed list that are router objects, each with the
\* metric normalizeRouterItem makes of it at its place in a list
RemovedObjects ==
    LET removed == LastInterpreted.removed
    IN  {[entry |-> removed[i], metric |-> normalizeRouterItem(removed[i], i - 1, now)] :
            i \in {j \in 1..Len(removed) : removed[j].t = "object"}}

\* C24: a router object in a delta's removed list names the identifier under which
\* normalizeRouterItem stores that object, so the delta leaves no entry under it.
C24_RemovalResolvesAsInsertion ==
    (received > 0 /\ LastInterpreted.kind = "delta") =>
        \A r \in RemovedObjects :
            r.metric # JNull =>
                /\ EntryIdentifier(r.entry) = <<r.metric.id>>
                /\ r.metric.id \notin DOMAIN routerMetrics

\* frames handled after the failure (model bound)
MaxStaleFrames == 2

\* frames that carry nothing, and two that carry a router
StaleFrames ==
    { [type |-> "string", text |-> <<RawLine(<<" ">>)>>],
      [type |-> "string", text |-> <<RawLine(<<>>), RawLine(<<" ">>)>>],
      [type |-> "string", text |-> <<RawLine(<<"o", "k">>)>>],
      [type |-> "string", text |-> <<RawLine(<<"o", "k">>), RawLine(<<"o", "k">>)>>],
      TextFrame(JNull),
      TextFrame(JNum(70)),
      TextFrame(JStr(IdA)),
      TextFrame(JArr(<<>>)),
      TextFrame(JArr(<<JNum(10), JNull>>)),
      TextFrame(JObj(<<KV("routers", JArr(<<>>))>>)),
      TextFrame(JObj(<<KV("type", JStr(TxtFull)), KV("data", JArr(<<>>))>>)),
      TextFrame(DeltaMessage(<<>>, <<>>, <<>>)),
      TextFrame(DeltaMessage(<<JNum(10)>>, <<JNull>>, <<JStr(<<" ">>), JNull>>)),
      TextFrame(JObj(<<KV("type", JStr(TxtDelta))>>)),
      [type |-> "none", text |-> <<>>],
      TextFrame(JArr(<<ItemB>>)),
      TextFrame(DeltaMessage(<<>>, <<>>, <<JStr(IdA)>>)) }

\* an open connection on which a snapshot of A was applied and then a binary frame could
\* not be read: the table holds A and lastError is set
InitStale ==
    /\ InitOpen
    /\ InitNoToken
    /\ InitNoClients
    /\ lastError = "message"
    /\ now = 0
    /\ lastFrame = TextFrame(JArr(<<ItemA>>))
    /\ prevMetrics = EmptyTable
    /\ prevHistory = EmptyTable
    /\ routerMetrics = HandleMessage(TextFrame(JArr(<<ItemA>>)), 0, EmptyTable, EmptyTable).routerMetrics
    /\ history = HandleMessage(TextFrame(JArr(<<ItemA>>)), 0, EmptyTable, EmptyTable).history
    /\ received = 2
    /\ inflight = <<>>
    /\ applied = <<1>>

NextStale ==
    \E data \in StaleFrames, dt \in 0..1 : received < 2 + MaxStaleFrames /\ OnMessage(data, dt)

SpecStale == InitStale /\ [][NextStale]_vars

\* the frame carries nothing: its text is empty after trimming, its payload is neither an
\* object nor an array, or its payload yields no router as a snapshot and no added,
\* updated or removed entry as a delta
ZeroItems(frame) ==
    LET payload == parseWebSocketMessage(frame)
        interpreted == interpretMonitoringPayload(payload)
    IN  \/ payload.t \notin {"object", "array"}
        \/ interpreted.kind = "none"
        \/ interpreted.kind = "full" /\ NamedIn(interpreted.routers) = {}
        \/ /\ interpreted.kind = "delta"
           /\ NamedIn(interpreted.added) = {}
           /\ NamedIn(interpreted.updated) = {}
           /\ extractRouterIdentifiers(interpreted.removed) = <<>>

\* C25: the handler of a frame that carries nothing leaves the metric table, the history
\* and lastError exactly as they were.
C25_ZeroItemFramesAreNoOps ==
    [][(received' = received + 1 /\ ZeroItems(lastFrame'))
          => UNCHANGED <<routerMetrics, history, lastError>>]_vars

\* a frame that carries nothing was handled after the failure: the error is still
\* shown and A is still in the table with its one point
C25_Witness ==
    /\ received = 3
    /\ ZeroItems(lastFrame)
    /\ lastFrame.type = "string"
    /\ parseWebSocketMessage(lastFrame).t = "object"
    /\ lastError = "message"
    /\ DOMAIN routerMetrics = {IdA}
    /\ Len(history[IdA]) = 1

\* C26: after every message, starting from the empty tables, the routers that have a
\* history are the routers of the metric table, and each history holds a point.
C26_HistoryAlignedWithTable ==
    /\ DOMAIN history = DOMAIN routerMetrics
    /\ \A id \in DOMAIN history : history[id] # <<>>

\* a snapshot of A and B, then a delta that adds C and removes A
C26_Witness ==
    /\ received = 2
    /\ LastInterpreted.kind = "delta"
    /\ DOMAIN prevHistory = {IdA, IdB}
    /\ DOMAIN history = {IdB, IdC}
    /\ Len(history[IdB]) = 1
    /\ Len(history[IdC]) = 1

\* C27: a router that one delta names in removed and also in added or updated is in
\* neither the metric table nor the history after the delta.
C27_RemovalWinsInsideDelta ==
    (received > 0 /\ LastInterpreted.kind = "delta") =>
        \A id \in LastRemovedIds \cap (LastAddedIds \cup LastUpdatedIds) :
            id \notin DOMAIN routerMetrics /\ id \notin DOMAIN history

\* with A and B in the table, a delta that adds C, updates B and removes B and C: neither
\* is in the table after
C27_Witness ==
    /\ received = 2
    /\ LastInterpreted.kind = "delta"
    /\ LastRemovedIds = {IdB, IdC}
    /\ LastAddedIds = {IdC}
    /\ LastUpdatedIds = {IdB}
    /\ DOMAIN prevMetrics = {IdA, IdB}
    /\ DOMAIN routerMetrics = {IdA}
    /\ DOMAIN history = {IdA}

-----------------------------------------------------------------------------
(* Further properties of the connection life cycle *)

\* C22: every step in which connectionState becomes open leaves lastError null,
\* whatever error was recorded before the step.
C22_ErrorClearedOnOpen ==
    [][connectionState # "open" /\ connectionState' = "open" => lastError' = "none"]_vars

\* C28: connect() runs first when the effect runs and afterwards only from the reconnect
\* timeout, and whenever it runs the socket made by the previous connect(), if one was
\* made, has had its close event; so at most one socket of the hook is CONNECTING or OPEN.
C28_SingleLiveSocket ==
    [][connects' # connects =>
          /\ connects = 0 \/ reconnectTimer = "pending"
          /\ socket \in {"none", "closed"}]_vars

\* a second socket has been created by the reconnect timeout and has opened, on a hook
\* that has received frames and is not torn down
C28_Witness ==
    /\ connects = 2
    /\ lastConnect = "created"
    /\ socket = "open"
    /\ received > 0
    /\ ~tornDown

-----------------------------------------------------------------------------
(* The users table: createClient, updateClient, updateClientStatus (db.ts).
   A row is its columns type, status, profile and profile_asli; the columns the
   calls write without reading them for the profile (username, ip_address, comment,
   router_id, manual_override, the timestamps) are left out. *)

TxtAktif    == <<"a", "k", "t", "i", "f">>
TxtNonaktif == <<"n", "o", "n", "a", "k", "t", "i", "f">>
TxtIsolir   == <<"i", "s", "o", "l", "i", "r">>
TxtNormal   == <<"n", "o", "r", "m", "a", "l">>
TxtPppoe    == <<"p", "p", "p", "o", "e">>

\* rows one run inserts (model bound)
MaxClients == 2

\* value?.trim()
OptTrim(v) == IF v.t = "string" THEN JStr(Trim(v.s)) ELSE JUndef

\* a || b
OrElse(a, b) == IF Truthy(a) THEN a ELSE b

\* a value bound to a statement parameter: undefined is not bound by these calls
SqlValue(v) == IF IsNullish(v) THEN JNull ELSE v

\* NULLIF(a, b)
NullIf(a, b) == IF a.t = "string" /\ a = b THEN JNull ELSE a

\* COALESCE(a, b)
SqlCoalesce(a, b) == IF a.t = "null" THEN b ELSE a

\* type === "pppoe" ? "normal" : null
DefaultProfile(type) == IF type = JStr(TxtPppoe) THEN JStr(TxtNormal) ELSE JNull

\* the outcome of a call: the table it leaves and whether it threw
DbDone(table)  == [users |-> table, threw |-> FALSE]
DbThrown(table) == [users |-> table, threw |-> TRUE]

\* createClient(payload)
createClient(table, payload) ==
    LET username    == Coalesce(OptTrim(payload.username), JStr(<<>>))
        rawType     == OrElse(OptTrim(payload.type), JNull)
        type        == IF Truthy(rawType) THEN JStr(ToLowerCase(rawType.s)) ELSE JNull
        status      == IF payload.status = JStr(TxtNonaktif) THEN TxtNonaktif ELSE TxtAktif
        baseProfile == OrElse(OptTrim(payload.profile), DefaultProfile(type))
        profile     == IF status = TxtNonaktif THEN JStr(TxtIsolir) ELSE baseProfile
        profileAsli == baseProfile
    IN  IF ~Truthy(username) THEN DbThrown(table)
        ELSE DbDone(Append(table, [type |-> type, status |-> JStr(status),
                                   profile |-> SqlValue(profile),
                                   profile_asli |-> SqlValue(profileAsli)]))

\* updateClientStatus(id, status)
updateClientStatus(table, id, status) ==
    IF id \notin DOMAIN table THEN DbThrown(table)
    ELSE
    LET row == table[id]
        currentProfile == Coalesce(row.profile, JNull)
        storedOriginalProfile ==
            IF Truthy(OptTrim(row.profile_asli)) THEN row.profile_asli ELSE JNull
        type == Coalesce(IF row.type.t = "string" THEN JStr(ToLowerCase(Trim(row.type.s))) ELSE JUndef,
                         JNull)
    IN  IF status = TxtNonaktif
        THEN LET originalProfile == Coalesce(Coalesce(storedOriginalProfile, currentProfile), JNull)
             IN  DbDone([table EXCEPT ![id] =
                    [@ EXCEPT !.status = JStr(TxtNonaktif),
                              !.profile_asli = SqlCoalesce(NullIf(@, JStr(<<>>)), originalProfile),
                              !.profile = JStr(TxtIsolir)]])
        ELSE LET nextProfile ==
                     IF type = JStr(TxtPppoe)
                     THEN Coalesce(storedOriginalProfile, JStr(TxtNormal))
                     ELSE JStr(TxtNormal)
             IN  DbDone([table EXCEPT ![id] =
                    [@ EXCEPT !.status = JStr(TxtAktif), !.profile = nextProfile]])

\* updateClient(id, payload); the username kept by the row is never empty
updateClient(table, id, payload) ==
    IF id <= 0 THEN DbThrown(table)
    ELSE IF id \notin DOMAIN table THEN DbThrown(table)
    ELSE
    LET existing == table[id]
        usernameGiven == payload.username.t # "undefined"
        username == OptTrim(payload.username)
        typeRaw == IF payload.type.t # "undefined" THEN payload.type ELSE existing.type
        type == IF Truthy(typeRaw) THEN OrElse(JStr(ToLowerCase(Trim(typeRaw.s))), JNull) ELSE JNull
        statusInput == Coalesce(payload.status,
                                IF existing.status = JStr(TxtNonaktif) THEN JStr(TxtNonaktif)
                                ELSE JStr(TxtAktif))
        status == IF statusInput = JStr(TxtNonaktif) THEN TxtNonaktif ELSE TxtAktif
        profileInputRaw == IF payload.profile.t # "undefined" THEN payload.profile ELSE JNull
        profileInput == IF Truthy(profileInputRaw) THEN JStr(Trim(profileInputRaw.s)) ELSE JNull
        existingProfile == OrElse(OptTrim(existing.profile), JNull)
        existingProfileAsli == OrElse(OptTrim(existing.profile_asli), JNull)
        originalProfile == Chain(<<profileInput, existingProfileAsli, existingProfile,
                                   DefaultProfile(type)>>)
        baseProfile == Chain(<<profileInput, existingProfileAsli,
                               IF existingProfile # JStr(TxtIsolir) THEN existingProfile ELSE JNull,
                               DefaultProfile(type)>>)
    IN  IF usernameGiven /\ ~Truthy(username) THEN DbThrown(table)
        ELSE IF status = TxtNonaktif
        THEN DbDone([table EXCEPT ![id] =
                [type |-> type, status |-> JStr(status),
                 profile |-> JStr(TxtIsolir), profile_asli |-> originalProfile]])
        ELSE DbDone([table EXCEPT ![id] =
                [type |-> type, status |-> JStr(status),
                 profile |-> baseProfile, profile_asli |-> baseProfile]])

\* the payloads of the callers: no profile whose trimmed text is isolir
ClientUsernames == {JStr(<<"a">>), JStr(<<" ">>)}
ClientTypes     == {JUndef, JStr(<<"P", "P", "P", "o", "E", " ">>)}
ClientStatuses  == {JUndef, JStr(TxtAktif), JStr(TxtNonaktif)}
ClientProfiles  == {JUndef, JStr(<<" ">>), JStr(<<"g", "o", "l", "d", " ">>)}
CreatePayloads ==
    [username : ClientUsernames, type : ClientTypes, status : ClientStatuses,
     profile : ClientProfiles]
UpdatePayloads ==
    [username : {JUndef, JStr(<<" ">>)}, type : ClientTypes \cup {JNull},
     status : ClientStatuses, profile : ClientProfiles \cup {JNull}]

CreateClient(payload) ==
    /\ Len(users) < MaxClients
    /\ users' = createClient(users, payload).users
    /\ dbResult' = [call |-> "createClient",
                    id |-> IF createClient(users, payload).threw THEN 0 ELSE Len(users'),
                    threw |-> createClient(users, payload).threw]
    /\ UNCHANGED <<hookVars, monVars, authVars>>

UpdateClient(id, payload) ==
    /\ users' = updateClient(users, id, payload).users
    /\ dbResult' = [call |-> "updateClient", id |-> id,
                    threw |-> updateClient(users, id, payload).threw]
    /\ UNCHANGED <<hookVars, monVars, authVars>>

UpdateClientStatus(id, status) ==
    /\ users' = updateClientStatus(users, id, status).users
    /\ dbResult' = [call |-> "updateClientStatus", id |-> id,
                    threw |-> updateClientStatus(users, id, status).threw]
    /\ UNCHANGED <<hookVars, monVars, authVars>>

NextClients ==
    \/ \E payload \in CreatePayloads : CreateClient(payload)
    \/ \E id \in 0..MaxClients, payload \in UpdatePayloads : UpdateClient(id, payload)
    \/ \E id \in 1..MaxClients, status \in {TxtAktif, TxtNonaktif} : UpdateClientStatus(id, status)

SpecClients == InitMon /\ [][NextClients]_vars

\* C30: after any sequence of createClient, updateClient and updateClientStatus calls
\* that pass no explicit profile isolir, every row has profile isolir exactly when its
\* status is nonaktif, and its profile_asli is never isolir.
C30_ClientIsolation ==
    \A id \in DOMAIN users :
        /\ (users[id].profile = JStr(TxtIsolir)) <=> (users[id].status = JStr(TxtNonaktif))
        /\ users[id].profile_asli # JStr(TxtIsolir)

=============================================================================
